---- MODULE Spec2Model ----
(***************************************************************************)
(* web3-robust-formatting: the robust wrappers (required-field check,      *)
(* normalizers, formatter call, fault capture) and the token-value         *)
(* calculator, modelled as one call per behaviour: Init draws the call,    *)
(* one action per public operation applies it and records its result.      *)
(*                                                                         *)
(* JavaScript values of unknown runtime type are records tagged by their   *)
(* typeof; strings are sequences of one-character strings so that trim,    *)
(* the digit patterns, Number() and parseUnits() are computed, not         *)
(* assumed; finite numbers are exact rationals n/d (binary rounding of     *)
(* IEEE doubles is not modelled).                                          *)
(***************************************************************************)
EXTENDS Integers, Sequences, FiniteSets, TLC

VARIABLES call, pc, result, console

vars == <<call, pc, result, console>>

(***************************************************************************)
(* Bounds of the model.                                                    *)
(***************************************************************************)
MaxTokenDecimals == 2
MaxFracScan == 7

(***************************************************************************)
(* Integer helpers.                                                        *)
(***************************************************************************)
Abs(x) == IF x < 0 THEN -x ELSE x

RECURSIVE Pow10(_)
Pow10(k) == IF k <= 0 THEN 1 ELSE 10 * Pow10(k - 1)

RECURSIVE GCD(_, _)
GCD(a, b) == IF b = 0 THEN a ELSE GCD(b, a % b)

\* Mutation of TruncDiv: the quotient rounded to the nearest integer.
TruncDiv_Nearest(a, b) ==
  LET q == Abs(a) \div Abs(b)
      r == Abs(a) % Abs(b)
      m == IF 2 * r >= Abs(b) THEN q + 1 ELSE q
  IN  IF (a >= 0) = (b > 0) THEN m ELSE -m

\* BigInt division: the quotient truncated toward zero.
TruncDiv(a, b) ==
  IF (a >= 0) = (b > 0) THEN Abs(a) \div Abs(b) ELSE -(Abs(a) \div Abs(b))

(***************************************************************************)
(* JavaScript values.                                                      *)
(***************************************************************************)
Undefined == [t |-> "undefined"]
Null      == [t |-> "null"]
Obj       == [t |-> "object"]
Arr       == [t |-> "array"]
Bool      == [t |-> "boolean"]
Big(i)    == [t |-> "bigint", i |-> i]
Str(s)    == [t |-> "string", s |-> s]
NaN       == [t |-> "number", k |-> "nan"]
PosInf    == [t |-> "number", k |-> "inf"]
NegInf    == [t |-> "number", k |-> "ninf"]

\* A finite number n/d, kept in lowest terms with d > 0.
Num(n, d) ==
  LET s == IF d < 0 THEN -1 ELSE 1
      g == GCD(Abs(n), Abs(d))
  IN  [t |-> "number", k |-> "fin", n |-> (s * n) \div g, d |-> (s * d) \div g]

Int2Num(i) == Num(i, 1)

IsNullish(v) == v.t \in {"undefined", "null"}
IsFinite(v)  == v.t = "number" /\ v.k = "fin"
IsInteger(v) == IsFinite(v) /\ v.d = 1

\* Mutation of NumLt: a value equal to the threshold counts as below it.
NumLt_OrEqual(a, b) == IF a.n \div a.d # b.n \div b.d THEN a.n \div a.d < b.n \div b.d ELSE (a.n % a.d) * b.d <= (b.n % b.d) * a.d

\* a < b, compared on the integer parts first and on the fractions when
\* these are equal, so that no product leaves the integer range.
NumLt(a, b) ==
  IF a.n \div a.d # b.n \div b.d THEN a.n \div a.d < b.n \div b.d
  ELSE (a.n % a.d) * b.d < (b.n % b.d) * a.d
\* Mutation of NumMul: the product is its first factor.
NumMul_First(a, b) == a

NumMul(a, b) == Num(a.n * b.n, a.d * b.d)
NumAbs(a) == Num(Abs(a.n), a.d)

\* a / b in IEEE arithmetic for finite a, b: x/0 is an infinity, 0/0 is NaN.
NumDiv(a, b) ==
  IF b.n = 0
    THEN (IF a.n = 0 THEN NaN ELSE IF a.n > 0 THEN PosInf ELSE NegInf)
    ELSE Num(a.n * b.d, a.d * b.n)

(***************************************************************************)
(* Strings as sequences of characters.                                     *)
(***************************************************************************)
Digits == {"0", "1", "2", "3", "4", "5", "6", "7", "8", "9"}

DigitVal(c) ==
  CASE c = "0" -> 0 [] c = "1" -> 1 [] c = "2" -> 2 [] c = "3" -> 3
    [] c = "4" -> 4 [] c = "5" -> 5 [] c = "6" -> 6 [] c = "7" -> 7
    [] c = "8" -> 8 [] c = "9" -> 9

DigitChar(i) ==
  CASE i = 0 -> "0" [] i = 1 -> "1" [] i = 2 -> "2" [] i = 3 -> "3"
    [] i = 4 -> "4" [] i = 5 -> "5" [] i = 6 -> "6" [] i = 7 -> "7"
    [] i = 8 -> "8" [] i = 9 -> "9"

RECURSIVE Join(_)
Join(s) == IF s = <<>> THEN "" ELSE Head(s) \o Join(Tail(s))

RECURSIVE TrimStart(_)
TrimStart(s) ==
  IF s # <<>> /\ Head(s) = " " THEN TrimStart(Tail(s)) ELSE s

RECURSIVE TrimEnd(_)
TrimEnd(s) ==
  IF s # <<>> /\ s[Len(s)] = " " THEN TrimEnd(SubSeq(s, 1, Len(s) - 1)) ELSE s

\* String.prototype.trim
Trim(s) == TrimEnd(TrimStart(s))

AllDigits(s) == \A i \in 1..Len(s) : s[i] \in Digits

\* /^\d+$/
IsDigitString(s) == s # <<>> /\ AllDigits(s)

\* /^-?\d+$/
IsIntString(s) ==
  IF s # <<>> /\ Head(s) = "-" THEN IsDigitString(Tail(s)) ELSE IsDigitString(s)

RECURSIVE DigitsToInt(_)
DigitsToInt(s) ==
  IF s = <<>> THEN 0 ELSE 10 * DigitsToInt(SubSeq(s, 1, Len(s) - 1)) + DigitVal(s[Len(s)])

\* BigInt(s) for a string matching /^-?\d+$/
IntStringToInt(s) ==
  IF Head(s) = "-" THEN -DigitsToInt(Tail(s)) ELSE DigitsToInt(s)

RECURSIVE NatToChars(_)
NatToChars(i) ==
  IF i < 10 THEN <<DigitChar(i)>> ELSE Append(NatToChars(i \div 10), DigitChar(i % 10))

IntToChars(i) == IF i < 0 THEN <<"-">> \o NatToChars(-i) ELSE NatToChars(i)

\* Position of the first "." of s, or 0.
DotAt(s) ==
  IF \E i \in 1..Len(s) : s[i] = "."
    THEN CHOOSE i \in 1..Len(s) : s[i] = "." /\ \A j \in 1..(i - 1) : s[j] # "."
    ELSE 0

\* The unsigned decimal literal digits[.digits] | .digits of Number().
IsUnsignedDecimal(s) ==
  LET p == DotAt(s)
      ip == IF p = 0 THEN s ELSE SubSeq(s, 1, p - 1)
      fp == IF p = 0 THEN <<>> ELSE SubSeq(s, p + 1, Len(s))
  IN  AllDigits(ip) /\ AllDigits(fp) /\ Len(ip) + Len(fp) > 0

UnsignedDecimalToNum(s) ==
  LET p == DotAt(s)
      ip == IF p = 0 THEN s ELSE SubSeq(s, 1, p - 1)
      fp == IF p = 0 THEN <<>> ELSE SubSeq(s, p + 1, Len(s))
  IN  Num(DigitsToInt(ip) * Pow10(Len(fp)) + DigitsToInt(fp), Pow10(Len(fp)))

\* Number(s) for a trimmed string over the model's alphabet (no exponent,
\* hex or Infinity literals are drawn): the empty string is 0, a signed
\* decimal literal is its value, anything else is NaN.
StringToNumber(s) ==
  LET neg == s # <<>> /\ Head(s) \in {"-", "+"}
      body == IF neg THEN Tail(s) ELSE s
  IN  IF s = <<>> THEN Int2Num(0)
      ELSE IF ~IsUnsignedDecimal(body) THEN NaN
      ELSE IF Head(s) = "-"
        THEN NumMul(Int2Num(-1), UnsignedDecimalToNum(body))
        ELSE UnsignedDecimalToNum(body)

\* The number of fraction digits of the terminating decimal with
\* denominator d (MaxFracScan + 1 when it has more, or does not terminate).
FracDigits(d) ==
  IF \E e \in 0..MaxFracScan : Pow10(e) % d = 0
    THEN CHOOSE e \in 0..MaxFracScan :
           Pow10(e) % d = 0 /\ \A f \in 0..(e - 1) : Pow10(f) % d # 0
    ELSE MaxFracScan + 1

RECURSIVE PadStart(_, _)
PadStart(s, k) == IF Len(s) >= k THEN s ELSE PadStart(<<"0">> \o s, k)

RECURSIVE PadEnd(_, _)
PadEnd(s, k) == IF Len(s) >= k THEN s ELSE PadEnd(Append(s, "0"), k)

RECURSIVE StripTrailingZeros(_)
StripTrailingZeros(s) ==
  IF s # <<>> /\ s[Len(s)] = "0"
    THEN StripTrailingZeros(SubSeq(s, 1, Len(s) - 1))
    ELSE s

\* String(x) for a number: "NaN", "Infinity", the shortest decimal, and the
\* exponent form for 0 < |x| < 1e-6 (the model draws no |x| >= 1e21).
NumberToChars(v) ==
  IF v.k = "nan" THEN <<"N", "a", "N">>
  ELSE IF v.k = "inf" THEN <<"I", "n", "f", "i", "n", "i", "t", "y">>
  ELSE IF v.k = "ninf" THEN <<"-", "I", "n", "f", "i", "n", "i", "t", "y">>
  ELSE
    LET e == FracDigits(v.d)
        m == (Abs(v.n) * Pow10(e)) \div v.d
        sgn == IF v.n < 0 THEN <<"-">> ELSE <<>>
        ds == NatToChars(m)
        ip == NatToChars(m \div Pow10(e))
        fp == PadStart(NatToChars(m % Pow10(e)), e)
    IN  IF e = 0 THEN sgn \o ip
        ELSE IF e > 6 /\ Len(ds) <= e - 6
          THEN sgn \o (IF Len(ds) = 1 THEN ds ELSE <<Head(ds), ".">> \o Tail(ds))
                   \o <<"e", "-">> \o NatToChars(e - (Len(ds) - 1))
          ELSE sgn \o ip \o <<".">> \o fp

(***************************************************************************)
(* robust-formatting.ts: runtime types, normalizers, required fields.      *)
(* A normalizer returns [v, w, e]: the typed value (or Undefined) and the  *)
(* caller's warnings and errors lists after its appends.                   *)
(***************************************************************************)
Quoted(chars) == "\"" \o Join(chars) \o "\""

\* Every integer the model draws lies within +-(2^53 - 1).
BeyondSafeInteger(i) == FALSE

resolveRuntimeType(value) == value.t

normalizeBigIntValue(value, warnings, errors) ==
  IF IsNullish(value) THEN [v |-> Undefined, w |-> warnings, e |-> errors]
  ELSE IF value.t = "bigint" THEN [v |-> value, w |-> warnings, e |-> errors]
  ELSE IF value.t = "number" THEN
    IF ~IsFinite(value) \/ ~IsInteger(value)
      THEN [v |-> Undefined, w |-> warnings,
            e |-> Append(errors, "bigIntValue has invalid number type "
                    \o Quoted(NumberToChars(value))
                    \o "; expected integer bigint-like value.")]
      ELSE [v |-> Big(value.n),
            w |-> Append(warnings,
                    "bigIntValue came as number and was automatically converted to bigint."),
            e |-> errors]
  ELSE IF value.t = "string" THEN
    LET trimmedValue == Trim(value.s) IN
    IF trimmedValue = <<>> \/ ~IsIntString(trimmedValue)
      THEN [v |-> Undefined, w |-> warnings,
            e |-> Append(errors, "bigIntValue string " \o Quoted(value.s)
                    \o " is not a valid bigint-like integer string.")]
      ELSE [v |-> Big(IntStringToInt(trimmedValue)),
            w |-> Append(warnings,
                    "bigIntValue came as string and was automatically converted to bigint."),
            e |-> errors]
  ELSE [v |-> Undefined, w |-> warnings,
        e |-> Append(errors, "bigIntValue has unsupported runtime type \""
                \o resolveRuntimeType(value) \o "\".")]

\* Mutation of normalizeSymbol: the symbol is not looked at once an earlier
\* coercion has failed.
normalizeSymbol_SkipsAfterError(symbol, errors) == IF Len(errors) > 0 \/ IsNullish(symbol) THEN [v |-> Undefined, e |-> errors] ELSE IF symbol.t = "string" THEN [v |-> symbol, e |-> errors] ELSE [v |-> Undefined, e |-> Append(errors, "symbol has unsupported runtime type \"" \o resolveRuntimeType(symbol) \o "\"; expected string.")]

normalizeSymbol(symbol, errors) ==
  IF IsNullish(symbol) THEN [v |-> Undefined, e |-> errors]
  ELSE IF symbol.t = "string" THEN [v |-> symbol, e |-> errors]
  ELSE [v |-> Undefined,
        e |-> Append(errors, "symbol has unsupported runtime type \""
                \o resolveRuntimeType(symbol) \o "\"; expected string.")]

\* Mutation of normalizeDecimals: a finite number is returned as it came,
\* whatever its sign and fraction.
normalizeDecimals_KeepsNumber(decimals, warnings, errors) == IF decimals.t = "number" /\ IsFinite(decimals) THEN [v |-> decimals, w |-> warnings, e |-> errors] ELSE IF IsNullish(decimals) THEN [v |-> Undefined, w |-> warnings, e |-> errors] ELSE [v |-> Undefined, w |-> warnings, e |-> Append(errors, "decimals is invalid.")]

normalizeDecimals(decimals, warnings, errors) ==
  IF IsNullish(decimals) THEN [v |-> Undefined, w |-> warnings, e |-> errors]
  ELSE IF decimals.t = "number" THEN
    IF ~IsFinite(decimals) \/ ~IsInteger(decimals) \/ BeyondSafeInteger(decimals.n)
       \/ decimals.n < 0
      THEN [v |-> Undefined, w |-> warnings,
            e |-> Append(errors, "decimals number " \o Quoted(NumberToChars(decimals))
                    \o " is invalid; expected non-negative safe integer.")]
      ELSE [v |-> decimals, w |-> warnings, e |-> errors]
  ELSE IF decimals.t = "bigint" THEN
    IF decimals.i < 0 \/ BeyondSafeInteger(decimals.i)
      THEN [v |-> Undefined, w |-> warnings,
            e |-> Append(errors, "decimals bigint " \o Quoted(IntToChars(decimals.i))
                    \o " is outside non-negative safe integer range.")]
      ELSE [v |-> Int2Num(decimals.i),
            w |-> Append(warnings,
                    "decimals came as bigint and was automatically converted to number."),
            e |-> errors]
  ELSE IF decimals.t = "string" THEN
    LET trimmedValue == Trim(decimals.s) IN
    IF trimmedValue = <<>> \/ ~IsDigitString(trimmedValue)
      THEN [v |-> Undefined, w |-> warnings,
            e |-> Append(errors, "decimals string " \o Quoted(decimals.s)
                    \o " is invalid; expected non-negative integer string.")]
    ELSE IF BeyondSafeInteger(DigitsToInt(trimmedValue))
      THEN [v |-> Undefined, w |-> warnings,
            e |-> Append(errors, "decimals string " \o Quoted(decimals.s)
                    \o " exceeds safe integer number range.")]
      ELSE [v |-> Int2Num(DigitsToInt(trimmedValue)),
            w |-> Append(warnings,
                    "decimals came as string and was automatically converted to number."),
            e |-> errors]
  ELSE [v |-> Undefined, w |-> warnings,
        e |-> Append(errors, "decimals has unsupported runtime type \""
                \o resolveRuntimeType(decimals) \o "\".")]

\* The number coercion shared by normalizeNumberValue (fieldName "value")
\* and normalizeScaleFactor (fieldName "multiplier" or "divider"); the two
\* differ only in that normalizeNumberValue first returns absent for a
\* nullish value.
CoerceNumber(fieldName, value, warnings, errors) ==
  IF value.t = "number" THEN
    IF ~IsFinite(value)
      THEN [v |-> Undefined, w |-> warnings,
            e |-> Append(errors, fieldName \o " number " \o Quoted(NumberToChars(value))
                    \o " is not finite.")]
      ELSE [v |-> value, w |-> warnings, e |-> errors]
  ELSE IF value.t = "string" THEN
    LET trimmedValue == Trim(value.s)
        parsedValue == StringToNumber(trimmedValue)
    IN
    IF trimmedValue = <<>>
      THEN [v |-> Undefined, w |-> warnings,
            e |-> Append(errors, fieldName
                    \o " string is empty and cannot be converted to number.")]
    ELSE IF ~IsFinite(parsedValue)
      THEN [v |-> Undefined, w |-> warnings,
            e |-> Append(errors, fieldName \o " string " \o Quoted(value.s)
                    \o " is not a finite numeric representation.")]
      ELSE [v |-> parsedValue,
            w |-> Append(warnings, fieldName
                    \o " came as string and was automatically converted to number."),
            e |-> errors]
  ELSE IF value.t = "bigint" THEN
    IF BeyondSafeInteger(value.i)
      THEN [v |-> Undefined, w |-> warnings,
            e |-> Append(errors, fieldName \o " bigint " \o Quoted(IntToChars(value.i))
                    \o " exceeds safe number range and cannot be converted.")]
      ELSE [v |-> Int2Num(value.i),
            w |-> Append(warnings, fieldName
                    \o " came as bigint and was automatically converted to number."),
            e |-> errors]
  ELSE [v |-> Undefined, w |-> warnings,
        e |-> Append(errors, fieldName \o " has unsupported runtime type \""
                \o resolveRuntimeType(value) \o "\"; expected number-like input.")]

normalizeNumberValue(value, warnings, errors) ==
  IF IsNullish(value) THEN [v |-> Undefined, w |-> warnings, e |-> errors]
  ELSE CoerceNumber("value", value, warnings, errors)

normalizeScaleFactor(fieldName, value, warnings, errors) ==
  CoerceNumber(fieldName, value, warnings, errors)

\* A record input object: the value of a field, undefined for a field the
\* object does not carry and for a missing object (input?.[fieldName]).
NoInput == [t |-> "undefined"]

Field(input, fieldName) ==
  IF fieldName \in DOMAIN input /\ fieldName # "t" THEN input[fieldName] ELSE Undefined

RECURSIVE MissingMessages(_, _)
MissingMessages(input, requiredFields) ==
  IF requiredFields = <<>> THEN <<>>
  ELSE
    LET value == Field(input, Head(requiredFields))
        rest == MissingMessages(input, Tail(requiredFields))
    IN  IF ~IsNullish(value) THEN rest
        ELSE <<Head(requiredFields) \o " is required but received "
                 \o (IF value.t = "null" THEN "null" ELSE "undefined") \o ".">> \o rest

\* requiredFields as the caller passes it: a list of field names, or none.
Omitted == [given |-> FALSE, fields |-> <<>>]
Given(fields) == [given |-> TRUE, fields |-> fields]

\* Mutation of reportMissingRequiredFields: every message goes to warnings,
\* whatever the severity.
reportMissingRequiredFields_AlwaysWarns(input, requiredFields, warnings, errors, severity) ==
  IF ~requiredFields.given \/ Len(requiredFields.fields) = 0
    THEN [missing |-> FALSE, w |-> warnings, e |-> errors]
    ELSE [missing |-> MissingMessages(input, requiredFields.fields) # <<>>,
          w |-> warnings \o MissingMessages(input, requiredFields.fields), e |-> errors]

\* Returns [missing, w, e].
reportMissingRequiredFields(input, requiredFields, warnings, errors, severity) ==
  IF ~requiredFields.given \/ Len(requiredFields.fields) = 0
    THEN [missing |-> FALSE, w |-> warnings, e |-> errors]
    ELSE
      LET msgs == MissingMessages(input, requiredFields.fields) IN
      [missing |-> msgs # <<>>,
       w |-> IF severity = "error" THEN warnings ELSE warnings \o msgs,
       e |-> IF severity = "error" THEN errors \o msgs ELSE errors]

\* console.error once per warning, then once per error, tagged with context.
reportRobustFormattingDiagnostics(context, warnings, errors) ==
  [i \in 1..Len(warnings) |->
     [line |-> "[" \o context \o "] " \o warnings[i], severity |-> "warning"]]
  \o
  [i \in 1..Len(errors) |->
     [line |-> "[" \o context \o "] " \o errors[i], severity |-> "error"]]

\* The result triple, the console lines the call emitted, and the steps of
\* the pipeline the call went through (a record of control flow, not a
\* field of the returned object).
finalizeRobustFormattingResult(context, value, warnings, errors, steps) ==
  [value |-> value, warnings |-> warnings, errors |-> errors,
   emitted |-> IF Len(warnings) > 0 \/ Len(errors) > 0
                 THEN reportRobustFormattingDiagnostics(context, warnings, errors)
                 ELSE <<>>,
   steps |-> steps]

(***************************************************************************)
(* Intl.NumberFormat (en-US) as the formatters use it.  Outcomes of a      *)
(* formatter are tagged: [tag |-> "value", v |-> ...], [tag |-> "absent"]  *)
(* or [tag |-> "throw", msg |-> ...].                                      *)
(***************************************************************************)
Absent == [tag |-> "absent"]
Value(v) == [tag |-> "value", v |-> v]
Throw(msg) == [tag |-> "throw", msg |-> msg]

Locale(tag) == [t |-> "string", tag |-> tag]
Dflt(x, d) == IF x.t = "undefined" THEN d ELSE x

\* new Intl.NumberFormat(locale, {minimumFractionDigits, maximumFractionDigits})
\* raises a RangeError for an unknown locale, for a digit count outside
\* 0..100 and for minimum > maximum; "" when it constructs.
IntlFault(locale, minFD, maxFD) ==
  IF locale.tag # "en-US" THEN "Incorrect locale information provided"
  ELSE IF ~IsInteger(minFD) \/ minFD.n < 0 \/ minFD.n > 100
    THEN "minimumFractionDigits value is out of range."
  ELSE IF ~IsInteger(maxFD) \/ maxFD.n < minFD.n \/ maxFD.n > 100
    THEN "maximumFractionDigits value is out of range."
  ELSE ""

\* x * 10^k rounded to an integer, ties away from zero, for x >= 0.
ScaledRound(x, k) ==
  LET g == GCD(Pow10(k), x.d)
      num == x.n * (Pow10(k) \div g)
      den == x.d \div g
      q == num \div den
      r == num % den
  IN  IF 2 * r >= den THEN q + 1 ELSE q

\* Math.round(x): the nearest integer, ties toward +Infinity.
\* Mutation of MathRound: rounds every fraction away from zero.
MathRound_AwayFromZero(x) == IF x.n < 0 THEN -((x.d - x.n - 1) \div x.d) ELSE (x.n + x.d - 1) \div x.d

\* Mutation of MathRound: rounds down instead of to the nearest integer.
MathRound_Floor(x) == x.n \div x.d

MathRound(x) ==
  LET q == x.n \div x.d
      r == x.n % x.d
  IN  IF 2 * r >= x.d THEN q + 1 ELSE q

RECURSIVE Grouped(_)
Grouped(ds) ==
  IF Len(ds) <= 3 THEN ds
  ELSE Grouped(SubSeq(ds, 1, Len(ds) - 3)) \o <<",">> \o SubSeq(ds, Len(ds) - 2, Len(ds))

\* Fixed-point text of the integer m = x * 10^maxFD: at most maxFD and at
\* least minFD fraction digits, the integer part grouped or not.
FixedText(m, minFD, maxFD, grouping) ==
  LET ip == NatToChars(m \div Pow10(maxFD))
      fpAll == PadStart(NatToChars(m % Pow10(maxFD)), maxFD)
      fpCut == StripTrailingZeros(IF maxFD = 0 THEN <<>> ELSE fpAll)
      fp == PadEnd(fpCut, minFD)
  IN  Join(IF grouping THEN Grouped(ip) ELSE ip)
        \o (IF fp = <<>> THEN "" ELSE "." \o Join(fp))

\* Mutation of FormatStandard: trailing zeros are dropped whatever the
\* minimum number of fraction digits.
FormatStandard_UpTo(x, minFD, maxFD, grouping) == FixedText(ScaledRound(x, maxFD), 0, maxFD, grouping)

\* notation "standard" for x >= 0.
FormatStandard(x, minFD, maxFD, grouping) ==
  FixedText(ScaledRound(x, maxFD), minFD, maxFD, grouping)

\* notation "compact" (short, en-US) for x >= 0 with minFD = maxFD = fd:
\* the suffix is chosen on the rounded value, so 999,999 is "1.00M".
CompactSuffix(i) == CASE i = 0 -> "" [] i = 1 -> "K" [] i = 2 -> "M" [] i = 3 -> "B"

RECURSIVE CompactAt(_, _, _)
CompactAt(x, fd, i) ==
  LET y == Num(x.n, x.d * Pow10(3 * i))
      m == ScaledRound(y, fd)
  IN  IF i < 3 /\ m >= 1000 * Pow10(fd)
        THEN CompactAt(x, fd, i + 1)
        ELSE FixedText(m, fd, fd, TRUE) \o CompactSuffix(i)

FormatCompact(x, fd) == CompactAt(x, fd, 0)

(***************************************************************************)
(* numberToViewNumber.ts                                                   *)
(***************************************************************************)
NoOptions ==
  [locale |-> Undefined, standardDecimals |-> Undefined,
   compactDecimals |-> Undefined, compactThreshold |-> Undefined,
   minDisplay |-> Undefined, maxDisplay |-> Undefined]

\* input is a number or a string of characters; symbol a string or
\* Undefined (the parameter default "$" then applies).  The local operators
\* take the values the code binds once (num, originalValue, absRounded) as
\* parameters.
formatNumberToViewNumber(input, symbol, opts) ==
  IF IsNullish(input) THEN Absent
  ELSE
    LET locale == Dflt(opts.locale, Locale("en-US"))
        standardDecimals == Dflt(opts.standardDecimals, Int2Num(2))
        compactDecimals == Dflt(opts.compactDecimals, Int2Num(2))
        compactThreshold == Dflt(opts.compactThreshold, Int2Num(1000000))
        minDisplay == Dflt(opts.minDisplay, Num(1, 100))
        maxDisplay == opts.maxDisplay
        sym == Dflt(symbol, Str(<<"$">>))
        stdFault == IntlFault(locale, standardDecimals, standardDecimals)
        cmpFault == IntlFault(locale, compactDecimals, compactDecimals)
        sd == standardDecimals.n
        Banded(num, originalValue, sign, absRounded, belowMin, aboveMax, compact) ==
          LET band ==
                IF belowMin THEN "floor"
                ELSE IF aboveMax /\ maxDisplay.t = "number" THEN "ceiling"
                ELSE IF ~NumLt(absRounded, compactThreshold) THEN "compact"
                ELSE "standard"
              viewValue ==
                IF belowMin THEN FormatStandard(minDisplay, sd, sd, TRUE)
                ELSE IF aboveMax /\ maxDisplay.t = "number"
                  THEN FormatStandard(maxDisplay, sd, sd, TRUE)
                ELSE IF ~NumLt(absRounded, compactThreshold)
                  THEN FormatCompact(absRounded, compactDecimals.n)
                ELSE FormatStandard(absRounded, sd, sd, TRUE)
          IN  Value([belowMin |-> belowMin, aboveMax |-> aboveMax, symbol |-> sym,
                     originalValue |-> originalValue, compact |-> compact,
                     viewValue |-> viewValue, originalValueNumber |-> num,
                     sign |-> sign, band |-> band])
        Rounded(num, originalValue, rounded, absRounded) ==
          Banded(num, originalValue, IF rounded.n < 0 THEN "-" ELSE "", absRounded,
                 NumLt(absRounded, minDisplay),
                 IF maxDisplay.t = "number" THEN NumLt(maxDisplay, absRounded) ELSE FALSE,
                 FormatCompact(NumAbs(num), compactDecimals.n))
        Round(num, originalValue, rounded) ==
          Rounded(num, originalValue, rounded, NumAbs(rounded))
        Parsed(num, originalValue) ==
          IF ~IsFinite(num) THEN
            Value([belowMin |-> FALSE, aboveMax |-> FALSE, symbol |-> sym,
                   originalValue |-> originalValue, compact |-> originalValue,
                   viewValue |-> originalValue, originalValueNumber |-> num,
                   sign |-> "(unset)", band |-> "nonfinite"])
          ELSE IF num.n = 0 THEN
            IF cmpFault # "" THEN Throw(cmpFault)
            ELSE
              Value([belowMin |-> FALSE, aboveMax |-> FALSE, symbol |-> sym,
                     originalValue |-> originalValue,
                     compact |-> FormatCompact(num, compactDecimals.n),
                     viewValue |-> "0.00", originalValueNumber |-> num,
                     sign |-> "(unset)", band |-> "zero"])
          ELSE IF stdFault # "" THEN Throw(stdFault)
          ELSE IF cmpFault # "" THEN Throw(cmpFault)
          ELSE Round(num, originalValue,
                     Num(MathRound(Num(num.n * Pow10(sd), num.d)), Pow10(sd)))
    IN
    Parsed(IF input.t = "number" THEN input ELSE StringToNumber(Trim(input.s)),
           IF input.t = "string" THEN Join(input.s) ELSE Join(NumberToChars(input)))

(***************************************************************************)
(* numberToViewPercentage.ts                                               *)
(***************************************************************************)
\* input is a finite or non-finite number (the wrapper passes the scaled
\* ratio); the thresholds of opts are in percent units.
formatPercentToViewPercent(input, opts) ==
  LET locale == Dflt(opts.locale, Locale("en-US"))
      standardDecimals == Dflt(opts.standardDecimals, Int2Num(2))
      compactDecimals == Dflt(opts.compactDecimals, Int2Num(2))
      compactThreshold == Dflt(opts.compactThreshold, Int2Num(1000000))
      minDisplay == Dflt(opts.minDisplay, Num(1, 100))
      maxDisplay == opts.maxDisplay
      stdFault == IntlFault(locale, standardDecimals, standardDecimals)
      cmpFault == IntlFault(locale, compactDecimals, compactDecimals)
      sd == standardDecimals.n
      Banded(numRaw, originalValue, sign, absRounded, belowMin, aboveMax, compact) ==
        LET band ==
              IF belowMin THEN "floor"
              ELSE IF aboveMax /\ maxDisplay.t = "number" THEN "ceiling"
              ELSE IF ~NumLt(absRounded, compactThreshold) THEN "compact"
              ELSE "standard"
            viewValue ==
              IF belowMin THEN FormatStandard(minDisplay, sd, sd, TRUE)
              ELSE IF aboveMax /\ maxDisplay.t = "number"
                THEN FormatStandard(maxDisplay, sd, sd, TRUE)
              ELSE IF ~NumLt(absRounded, compactThreshold)
                THEN FormatCompact(absRounded, compactDecimals.n)
              ELSE FormatStandard(absRounded, sd, sd, TRUE)
        IN  Value([belowMin |-> belowMin, aboveMax |-> aboveMax, symbol |-> Str(<<"%">>),
                   originalValue |-> originalValue, compact |-> compact,
                   viewValue |-> viewValue, originalValueNumber |-> numRaw,
                   sign |-> sign, band |-> band])
      Rounded(numRaw, percent, originalValue, rounded, absRounded, belowMin) ==
        Banded(numRaw, originalValue,
               IF rounded.n < 0 \/ (belowMin /\ percent.n < 0) THEN "-" ELSE "",
               absRounded, belowMin,
               IF maxDisplay.t = "number" /\ IsFinite(maxDisplay)
                 THEN NumLt(maxDisplay, absRounded) ELSE FALSE,
               FormatCompact(NumAbs(percent), compactDecimals.n))
      Round(numRaw, percent, originalValue, rounded, absRounded) ==
        Rounded(numRaw, percent, originalValue, rounded, absRounded,
                NumLt(absRounded, minDisplay))
      Scaled(numRaw, percent, originalValue) ==
        IF ~IsFinite(percent) THEN
          Value([belowMin |-> FALSE, aboveMax |-> FALSE, symbol |-> Str(<<"%">>),
                 originalValue |-> originalValue, compact |-> originalValue,
                 viewValue |-> originalValue, originalValueNumber |-> numRaw,
                 sign |-> "", band |-> "nonfinite"])
        ELSE IF percent.n = 0 THEN
          IF cmpFault # "" THEN Throw(cmpFault)
          ELSE
            Value([belowMin |-> FALSE, aboveMax |-> FALSE, symbol |-> Str(<<"%">>),
                   originalValue |-> originalValue,
                   compact |-> FormatCompact(percent, compactDecimals.n),
                   viewValue |-> "0.00", originalValueNumber |-> numRaw,
                   sign |-> "", band |-> "zero"])
        ELSE IF stdFault # "" THEN Throw(stdFault)
        ELSE IF cmpFault # "" THEN Throw(cmpFault)
        ELSE Round(numRaw, percent, originalValue,
                   Num(MathRound(Num(percent.n * Pow10(sd), percent.d)), Pow10(sd)),
                   NumAbs(Num(MathRound(Num(percent.n * Pow10(sd), percent.d)), Pow10(sd))))
      Percent(numRaw, percent) ==
        Scaled(numRaw, percent,
               IF IsFinite(percent) THEN Join(NumberToChars(percent))
               ELSE IF input.t = "string" THEN Join(input.s)
               ELSE IF input.t = "number" THEN Join(NumberToChars(input))
               ELSE input.t)
      Parsed(numRaw) ==
        Percent(numRaw, IF IsFinite(numRaw) THEN NumMul(numRaw, Int2Num(100)) ELSE NaN)
  IN
  Parsed(IF input.t = "number" THEN input
         ELSE IF input.t = "string" THEN StringToNumber(Trim(input.s))
         ELSE IF input.t = "null" THEN Int2Num(0)
         ELSE NaN)

(***************************************************************************)
(* viem: formatUnits and parseUnits, and the engine's BigInt limits.       *)
(***************************************************************************)
\* String.prototype.padStart raises "Invalid string length" beyond the
\* engine's maximal string length (2^29 - 24 characters in V8).
StringTooLong(len) == len > 536870888

\* 10n ** BigInt(d) raises "Maximum BigInt size exceeded" beyond the
\* engine's maximal BigInt size (2^30 bits in V8, about 3.2e8 digits).
BigIntTooLarge(d) == d > 323228496

\* formatUnits(value, decimals): the exact decimal text of value / 10^decimals.
formatUnits(value, decimals) ==
  LET display == PadStart(NatToChars(Abs(value)), decimals)
      integer == SubSeq(display, 1, Len(display) - decimals)
      fraction == StripTrailingZeros(SubSeq(display, Len(display) - decimals + 1, Len(display)))
  IN  (IF value < 0 THEN <<"-">> ELSE <<>>)
        \o (IF integer = <<>> THEN <<"0">> ELSE integer)
        \o (IF fraction = <<>> THEN <<>> ELSE <<".">> \o fraction)

\* The decimal literal parseUnits accepts: an optional "-", digits, an optional ".", digits.
IsParseUnitsLiteral(s) ==
  LET body == IF s # <<>> /\ Head(s) = "-" THEN Tail(s) ELSE s
      p == DotAt(body)
      ip == IF p = 0 THEN body ELSE SubSeq(body, 1, p - 1)
      fp == IF p = 0 THEN <<>> ELSE SubSeq(body, p + 1, Len(body))
  IN  AllDigits(ip) /\ AllDigits(fp)

\* parseUnits(value, decimals): the decimal literal scaled by 10^decimals,
\* a fraction longer than decimals rounded half up on its magnitude; an
\* InvalidDecimalNumberError for anything but a decimal literal, and a
\* SyntaxError for the bare "-" that BigInt("-") is handed when decimals is 0
\* and no integer digit remains.  [ok, v] or [ok |-> FALSE, msg].
parseUnits(s, decimals) ==
  IF ~IsParseUnitsLiteral(s)
    THEN [ok |-> FALSE,
          msg |-> "Number " \o Quoted(s) \o " is not a valid decimal number."]
    ELSE
      LET negative == s # <<>> /\ Head(s) = "-"
          body == IF negative THEN Tail(s) ELSE s
          p == DotAt(body)
          integer == IF p = 0 THEN body ELSE SubSeq(body, 1, p - 1)
          fraction ==
            StripTrailingZeros(IF p = 0 THEN <<"0">> ELSE SubSeq(body, p + 1, Len(body)))
          kept == SubSeq(PadEnd(fraction, decimals), 1, decimals)
          up == IF Len(fraction) > decimals /\ DigitVal(fraction[decimals + 1]) >= 5
                  THEN 1 ELSE 0
          magnitude == DigitsToInt(integer) * Pow10(decimals) + DigitsToInt(kept) + up
      IN  IF negative /\ decimals = 0 /\ integer = <<>> /\ up = 0
            THEN [ok |-> FALSE, msg |-> "Cannot convert - to a BigInt"]
            ELSE [ok |-> TRUE, v |-> IF negative THEN -magnitude ELSE magnitude]

\* BigInt(text) for a string: surrounding white space is ignored, the empty
\* string is 0n, a signed digit string its value; a SyntaxError otherwise.
StringToBigInt(s) ==
  LET t == Trim(s)
      body == IF t # <<>> /\ Head(t) \in {"-", "+"} THEN Tail(t) ELSE t
  IN  IF t = <<>> THEN [ok |-> TRUE, v |-> 0]
      ELSE IF IsDigitString(body)
        THEN [ok |-> TRUE, v |-> IF Head(t) = "-" THEN -DigitsToInt(body) ELSE DigitsToInt(body)]
        ELSE [ok |-> FALSE, msg |-> "Cannot convert " \o Join(s) \o " to a BigInt"]

(***************************************************************************)
(* bigIntToViewNumber.ts                                                   *)
(***************************************************************************)
\* input is a bigint or a string; decimals a number or nullish.
formatBigIntToViewNumber(input, decimals, symbol, opts) ==
  IF IsNullish(decimals) \/ IsNullish(input) THEN Absent
  ELSE
    LET base == IF input.t = "bigint" THEN [ok |-> TRUE, v |-> input.i]
                ELSE IF input.t = "string" THEN StringToBigInt(input.s)
                ELSE IF IsInteger(input) THEN [ok |-> TRUE, v |-> input.n]
                ELSE [ok |-> FALSE, msg |-> "not an integer"]
    IN
    IF ~base.ok
      THEN Throw("formatBigIntToViewNumber: input must be a bigint or bigint-like string")
    ELSE IF StringTooLong(decimals.n) THEN Throw("Invalid string length")
    ELSE
      LET human == formatUnits(base.v, decimals.n)
          WithDecimals(res) ==
            IF res.tag = "value"
              THEN Value(res.v @@ [decimals |-> decimals.n])
              ELSE res
      IN  WithDecimals(formatNumberToViewNumber(Str(human), Dflt(symbol, Str(<<"$">>)), opts))

(***************************************************************************)
(* bigIntToViewTokenAmount.ts                                              *)
(***************************************************************************)
NoConfig ==
  [locale |-> Undefined, decimals |-> Undefined, singleDigitDecimals |-> Undefined,
   twoDigitDecimals |-> Undefined, compactDecimals |-> Undefined,
   minDisplay |-> Undefined, maxDisplay |-> Undefined]

\* Each band builds only its own Intl formatter, so which digit count can
\* fault depends on the band.  [tag |-> "value", v |-> [viewValue, belowMin,
\* aboveMax, sign, band]] or a throw.
formatViewValueByMagnitude(n, locale, opts) ==
  LET sign == IF n.n < 0 THEN "-" ELSE ""
      hasMin == opts.minDisplay.t = "number" /\ IsFinite(opts.minDisplay)
      hasMax == opts.maxDisplay.t = "number" /\ IsFinite(opts.maxDisplay)
      sdd == opts.singleDigitDecimals
      tdd == opts.twoDigitDecimals
      cd == opts.compactDecimals
      Formatter(fault, viewValue, band) ==
        IF fault # "" THEN Throw(fault)
        ELSE Value([viewValue |-> viewValue, belowMin |-> band = "floor",
                    aboveMax |-> band = "ceiling", sign |-> sign, band |-> band])
      Band(abs) ==
        IF hasMin /\ abs.n > 0 /\ NumLt(abs, opts.minDisplay) THEN
          Formatter(IntlFault(locale, sdd, sdd),
                    sign \o FormatStandard(opts.minDisplay, sdd.n, sdd.n, FALSE), "floor")
        ELSE IF hasMax /\ NumLt(opts.maxDisplay, abs) THEN
          Formatter(IntlFault(locale, Int2Num(0), tdd),
                    FormatStandard(opts.maxDisplay, 0, tdd.n, TRUE), "ceiling")
        ELSE IF NumLt(abs, Int2Num(10)) THEN
          Formatter(IntlFault(locale, Int2Num(0), sdd),
                    sign \o FormatStandard(abs, 0, sdd.n, FALSE), "single")
        ELSE IF NumLt(abs, Int2Num(1000000)) THEN
          Formatter(IntlFault(locale, Int2Num(0), tdd),
                    sign \o FormatStandard(abs, 0, tdd.n, TRUE), "two")
        ELSE
          Formatter(IntlFault(locale, cd, cd), sign \o FormatCompact(abs, cd.n), "compact")
  IN  Band(NumAbs(n))

\* formatCompact(n, locale, decimals): sign and upper-cased compact text.
formatCompact(n, locale, decimals) ==
  LET Formatter(fault) ==
        IF fault # "" THEN Throw(fault)
        ELSE Value((IF n.n < 0 THEN "-" ELSE "") \o FormatCompact(NumAbs(n), decimals.n))
  IN  Formatter(IntlFault(locale, decimals, decimals))

\* data is NoInput or an object with bigIntValue, symbol and decimals.  The
\* local operators take the values the code binds once (the BigInt, the
\* formatUnits text, its number, the two formatted parts) as parameters.
formatBigIntToViewTokenAmount(data, config) ==
  LET locale == Dflt(config.locale, Locale("en-US"))
      fixedDec == config.decimals
      singleDigitDecimals == Dflt(config.singleDigitDecimals, Int2Num(6))
      twoDigitDecimals == Dflt(config.twoDigitDecimals, Int2Num(2))
      compactDecimals == Dflt(config.compactDecimals, Int2Num(2))
      minDisplay == config.minDisplay
      maxDisplay == config.maxDisplay
      amount == Field(data, "bigIntValue")
      tokenDecimals == Field(data, "decimals")
      symbol == Dflt(Field(data, "symbol"), Null)
      cmpFault == IntlFault(locale, compactDecimals, compactDecimals)
      fixedFault == IntlFault(locale, fixedDec, fixedDec)
      floorFault == IntlFault(locale, singleDigitDecimals, singleDigitDecimals)
      hasMin == minDisplay.t = "number" /\ IsFinite(minDisplay)
      Assembled(base, view, compact) ==
        IF view.tag = "throw" THEN view
        ELSE IF compact.tag = "throw" THEN compact
        ELSE Value(base @@ [viewValue |-> view.v.viewValue, compact |-> compact.v,
                            belowMin |-> view.v.belowMin, aboveMax |-> view.v.aboveMax,
                            sign |-> view.v.sign, band |-> view.v.band])
      Fixed(sign, abs, fixedBelow) ==
        IF fixedFault # "" THEN Throw(fixedFault)
        ELSE IF fixedBelow /\ floorFault # "" THEN Throw(floorFault)
        ELSE Value([viewValue |->
                      IF fixedBelow
                        THEN sign \o FormatStandard(minDisplay,
                               singleDigitDecimals.n, singleDigitDecimals.n, FALSE)
                        ELSE sign \o FormatStandard(abs, fixedDec.n, fixedDec.n, TRUE),
                    belowMin |-> fixedBelow, aboveMax |-> FALSE, sign |-> sign,
                    band |-> IF fixedBelow THEN "floor" ELSE "fixed"])
      FixedView(sign, abs) ==
        Fixed(sign, abs, hasMin /\ abs.n > 0 /\ NumLt(abs, minDisplay))
      Formatted(base, num) ==
        IF num.n = 0 THEN
          IF cmpFault # "" THEN Throw(cmpFault)
          ELSE Value(base @@ [viewValue |-> "0.00",
                              compact |-> FormatCompact(num, compactDecimals.n),
                              belowMin |-> FALSE, aboveMax |-> FALSE,
                              sign |-> "(unset)", band |-> "zero"])
        ELSE
          Assembled(base,
            IF fixedDec.t = "number"
              THEN FixedView(IF num.n < 0 THEN "-" ELSE "", NumAbs(num))
              ELSE formatViewValueByMagnitude(num, locale,
                     [singleDigitDecimals |-> singleDigitDecimals,
                      twoDigitDecimals |-> twoDigitDecimals,
                      compactDecimals |-> compactDecimals,
                      minDisplay |-> minDisplay, maxDisplay |-> maxDisplay]),
            formatCompact(num, locale, compactDecimals))
      Units(big, raw) ==
        Formatted([originalValue |-> Join(raw), bigIntValue |-> big.v, symbol |-> symbol,
                   decimals |-> tokenDecimals.n],
                  StringToNumber(raw))
      Converted(big) ==
        IF ~big.ok THEN Throw(big.msg)
        ELSE IF StringTooLong(tokenDecimals.n) THEN Throw("Invalid string length")
        ELSE Units(big, formatUnits(big.v, tokenDecimals.n))
  IN
  IF IsNullish(amount) \/ IsNullish(tokenDecimals) THEN Absent
  ELSE
    Converted(IF amount.t = "bigint" THEN [ok |-> TRUE, v |-> amount.i]
              ELSE IF amount.t = "string" THEN StringToBigInt(amount.s)
              ELSE IF amount.t = "number" THEN StringToBigInt(NumberToChars(amount))
              ELSE [ok |-> FALSE, msg |-> "Cannot convert [object Object] to a BigInt"])

(***************************************************************************)
(* The robust wrappers.  params carries input, options/config,             *)
(* requiredFields, missingRequiredFieldSeverity and context as the caller  *)
(* passed them.  steps lists the pipeline stages the call reached, and     *)
(* norm the values the normalizers returned (NotRun when they did not      *)
(* run).                                                                   *)
(***************************************************************************)
NotRun == [ran |-> FALSE]

\* Mutation of CaptureFormatter: no catch, the fault of the formatter is the
\* outcome of the call.
CaptureFormatter_NoCatch(name, context, outcome, warnings, errors, steps, norm) ==
  finalizeRobustFormattingResult(context, outcome, warnings, errors, steps)
    @@ [norm |-> norm]

\* try { value = formatter(...) } catch (error) { errors.push(`${name} threw: ...`) }
CaptureFormatter(name, context, outcome, warnings, errors, steps, norm) ==
  IF outcome.tag = "throw"
    THEN finalizeRobustFormattingResult(context, Absent, warnings,
           Append(errors, name \o " threw: " \o outcome.msg \o "."), steps)
           @@ [norm |-> norm]
    ELSE finalizeRobustFormattingResult(context, outcome, warnings, errors, steps)
           @@ [norm |-> norm]

\* Mutation of robustFormatNumberToViewNumber: the errors.length > 0 return
\* is missing.
robustFormatNumberToViewNumber_IgnoresErrors(params) ==
  LET input == params.input
      Format(nv, ns, norm) ==
        IF nv.v.t = "undefined"
          THEN finalizeRobustFormattingResult(params.context, Absent, nv.w, ns.e,
                 <<"required", "normalize">>) @@ [norm |-> norm]
        ELSE CaptureFormatter("formatNumberToViewNumber", params.context,
               formatNumberToViewNumber(nv.v, ns.v, params.options),
               nv.w, ns.e, <<"required", "normalize", "format">>, norm)
      Normalized(nv, ns) == Format(nv, ns, [ran |-> TRUE, value |-> nv.v, symbol |-> ns.v])
      NormalizeSymbol(nv) == Normalized(nv, normalizeSymbol(Field(input, "symbol"), nv.e))
      Required(req) ==
        IF req.missing
          THEN finalizeRobustFormattingResult(params.context, Absent, req.w, req.e,
                 <<"required">>) @@ [norm |-> NotRun]
          ELSE NormalizeSymbol(normalizeNumberValue(Field(input, "value"), req.w, req.e))
  IN  Required(reportMissingRequiredFields(input, params.requiredFields, <<>>, <<>>,
                                           params.missingRequiredFieldSeverity))

\* The local operators are the stages of the call, last stage first: each
\* takes what the stages before it returned.
robustFormatNumberToViewNumber(params) ==
  LET input == params.input
      Format(nv, ns, norm) ==
        IF Len(ns.e) > 0
          THEN finalizeRobustFormattingResult(params.context, Absent, nv.w, ns.e,
                 <<"required", "normalize">>) @@ [norm |-> norm]
        ELSE IF nv.v.t = "undefined"
          THEN finalizeRobustFormattingResult(params.context, Absent, nv.w, ns.e,
                 <<"required", "normalize">>) @@ [norm |-> norm]
        ELSE CaptureFormatter("formatNumberToViewNumber", params.context,
               formatNumberToViewNumber(nv.v, ns.v, params.options),
               nv.w, ns.e, <<"required", "normalize", "format">>, norm)
      Normalized(nv, ns) == Format(nv, ns, [ran |-> TRUE, value |-> nv.v, symbol |-> ns.v])
      NormalizeSymbol(nv) == Normalized(nv, normalizeSymbol(Field(input, "symbol"), nv.e))
      Required(req) ==
        IF req.missing
          THEN finalizeRobustFormattingResult(params.context, Absent, req.w, req.e,
                 <<"required">>) @@ [norm |-> NotRun]
          ELSE NormalizeSymbol(normalizeNumberValue(Field(input, "value"), req.w, req.e))
  IN  Required(reportMissingRequiredFields(input, params.requiredFields, <<>>, <<>>,
                                           params.missingRequiredFieldSeverity))

\* Mutation of robustFormatPercentToViewPercent: the zero-divider check is
\* missing, the division is attempted.
robustFormatPercentToViewPercent_NoZeroCheck(params) ==
  LET input == params.input
      multiplier == Dflt(params.multiplier, Int2Num(1))
      divider == Dflt(params.divider, Int2Num(1))
      Format(nv, nm, nd, errors, norm) ==
        IF Len(errors) > 0
          THEN finalizeRobustFormattingResult(params.context, Absent, nd.w, errors,
                 <<"required", "normalize">>) @@ [norm |-> norm]
        ELSE IF nv.v.t = "undefined" \/ nm.v.t = "undefined" \/ nd.v.t = "undefined"
          THEN finalizeRobustFormattingResult(params.context, Absent, nd.w, errors,
                 <<"required", "normalize">>) @@ [norm |-> norm]
        ELSE
          LET scaledValue == NumDiv(NumMul(nv.v, nm.v), nd.v) IN
          CaptureFormatter("formatPercentToViewPercent", params.context,
            formatPercentToViewPercent(scaledValue, params.options),
            nd.w, errors, <<"required", "normalize", "divide", "format">>, norm)
      Normalized(nv, nm, nd) ==
        Format(nv, nm, nd, nd.e,
               [ran |-> TRUE, value |-> nv.v, multiplier |-> nm.v, divider |-> nd.v])
      NormalizeDivider(nv, nm) ==
        Normalized(nv, nm, normalizeScaleFactor("divider", divider, nm.w, nm.e))
      NormalizeMultiplier(nv) ==
        NormalizeDivider(nv, normalizeScaleFactor("multiplier", multiplier, nv.w, nv.e))
      Required(req) ==
        IF req.missing
          THEN finalizeRobustFormattingResult(params.context, Absent, req.w, req.e,
                 <<"required">>) @@ [norm |-> NotRun]
          ELSE NormalizeMultiplier(normalizeNumberValue(Field(input, "value"), req.w, req.e))
  IN  Required(reportMissingRequiredFields(input, params.requiredFields, <<>>, <<>>,
                                           params.missingRequiredFieldSeverity))

robustFormatPercentToViewPercent(params) ==
  LET input == params.input
      multiplier == Dflt(params.multiplier, Int2Num(1))
      divider == Dflt(params.divider, Int2Num(1))
      Format(nv, nm, nd, errors, norm) ==
        IF Len(errors) > 0
          THEN finalizeRobustFormattingResult(params.context, Absent, nd.w, errors,
                 <<"required", "normalize">>) @@ [norm |-> norm]
        ELSE IF nv.v.t = "undefined" \/ nm.v.t = "undefined" \/ nd.v.t = "undefined"
          THEN finalizeRobustFormattingResult(params.context, Absent, nd.w, errors,
                 <<"required", "normalize">>) @@ [norm |-> norm]
        ELSE
          LET scaledValue == NumDiv(NumMul(nv.v, nm.v), nd.v) IN
          CaptureFormatter("formatPercentToViewPercent", params.context,
            formatPercentToViewPercent(scaledValue, params.options),
            nd.w, errors, <<"required", "normalize", "divide", "format">>, norm)
      Normalized(nv, nm, nd) ==
        Format(nv, nm, nd,
               IF nd.v.t # "undefined" /\ nd.v.n = 0
                 THEN Append(nd.e, "divider cannot be zero.") ELSE nd.e,
               [ran |-> TRUE, value |-> nv.v, multiplier |-> nm.v, divider |-> nd.v])
      NormalizeDivider(nv, nm) ==
        Normalized(nv, nm, normalizeScaleFactor("divider", divider, nm.w, nm.e))
      NormalizeMultiplier(nv) ==
        NormalizeDivider(nv, normalizeScaleFactor("multiplier", multiplier, nv.w, nv.e))
      Required(req) ==
        IF req.missing
          THEN finalizeRobustFormattingResult(params.context, Absent, req.w, req.e,
                 <<"required">>) @@ [norm |-> NotRun]
          ELSE NormalizeMultiplier(normalizeNumberValue(Field(input, "value"), req.w, req.e))
  IN  Required(reportMissingRequiredFields(input, params.requiredFields, <<>>, <<>>,
                                           params.missingRequiredFieldSeverity))

DEFAULT_REQUIRED_BIGINT_FIELDS == Given(<<"decimals">>)

\* Mutation of EffectiveRequiredFields: the default is not dropped when
\* input.bigIntValue is nullish.
EffectiveRequiredFields_KeepsDefault(params) ==
  IF params.requiredFields.given THEN params.requiredFields
  ELSE DEFAULT_REQUIRED_BIGINT_FIELDS

\* Mutation of EffectiveRequiredFields: an empty list counts as no list.
EffectiveRequiredFields_EmptyIsDefault(params) ==
  IF Len(params.requiredFields.fields) = 0
    THEN (IF IsNullish(Field(params.input, "bigIntValue"))
            THEN Given(<<>>) ELSE DEFAULT_REQUIRED_BIGINT_FIELDS)
    ELSE params.requiredFields

\* The default ["decimals"] applies when the caller passes no list, and is
\* dropped when, in addition, input.bigIntValue is nullish.
EffectiveRequiredFields(params) ==
  IF ~params.requiredFields.given /\ IsNullish(Field(params.input, "bigIntValue"))
    THEN Given(<<>>)
    ELSE IF params.requiredFields.given THEN params.requiredFields
         ELSE DEFAULT_REQUIRED_BIGINT_FIELDS

\* Mutation of robustFormatBigIntToViewNumber: the return after a failed
\* required-field check is missing.
robustFormatBigIntToViewNumber_NoEarlyReturn(params) ==
  LET input == params.input
      Format(nb, ns, nd, norm) ==
        IF Len(nd.e) > 0
          THEN finalizeRobustFormattingResult(params.context, Absent, nd.w, nd.e,
                 <<"required", "normalize">>) @@ [norm |-> norm]
        ELSE IF nb.v.t = "undefined" \/ nd.v.t = "undefined"
          THEN finalizeRobustFormattingResult(params.context, Absent, nd.w, nd.e,
                 <<"required", "normalize">>) @@ [norm |-> norm]
        ELSE CaptureFormatter("formatBigIntToViewNumber", params.context,
               formatBigIntToViewNumber(nb.v, nd.v, ns.v, params.options),
               nd.w, nd.e, <<"required", "normalize", "format">>, norm)
      Normalized(nb, ns, nd) ==
        Format(nb, ns, nd,
               [ran |-> TRUE, bigIntValue |-> nb.v, symbol |-> ns.v, decimals |-> nd.v])
      NormalizeDecimals(nb, ns) ==
        Normalized(nb, ns, normalizeDecimals(Field(input, "decimals"), nb.w, ns.e))
      NormalizeSymbol(nb) == NormalizeDecimals(nb, normalizeSymbol(Field(input, "symbol"), nb.e))
      Required(req) ==
        NormalizeSymbol(normalizeBigIntValue(Field(input, "bigIntValue"), req.w, req.e))
  IN  Required(reportMissingRequiredFields(input, EffectiveRequiredFields(params), <<>>, <<>>,
                                           params.missingRequiredFieldSeverity))

robustFormatBigIntToViewNumber(params) ==
  LET input == params.input
      Format(nb, ns, nd, norm) ==
        IF Len(nd.e) > 0
          THEN finalizeRobustFormattingResult(params.context, Absent, nd.w, nd.e,
                 <<"required", "normalize">>) @@ [norm |-> norm]
        ELSE IF nb.v.t = "undefined" \/ nd.v.t = "undefined"
          THEN finalizeRobustFormattingResult(params.context, Absent, nd.w, nd.e,
                 <<"required", "normalize">>) @@ [norm |-> norm]
        ELSE CaptureFormatter("formatBigIntToViewNumber", params.context,
               formatBigIntToViewNumber(nb.v, nd.v, ns.v, params.options),
               nd.w, nd.e, <<"required", "normalize", "format">>, norm)
      Normalized(nb, ns, nd) ==
        Format(nb, ns, nd,
               [ran |-> TRUE, bigIntValue |-> nb.v, symbol |-> ns.v, decimals |-> nd.v])
      NormalizeDecimals(nb, ns) ==
        Normalized(nb, ns, normalizeDecimals(Field(input, "decimals"), nb.w, ns.e))
      NormalizeSymbol(nb) == NormalizeDecimals(nb, normalizeSymbol(Field(input, "symbol"), nb.e))
      Required(req) ==
        IF req.missing
          THEN finalizeRobustFormattingResult(params.context, Absent, req.w, req.e,
                 <<"required">>) @@ [norm |-> NotRun]
          ELSE NormalizeSymbol(normalizeBigIntValue(Field(input, "bigIntValue"), req.w, req.e))
  IN  Required(reportMissingRequiredFields(input, EffectiveRequiredFields(params), <<>>, <<>>,
                                           params.missingRequiredFieldSeverity))

robustFormatBigIntToViewTokenAmount(params) ==
  LET input == params.input
      Format(nb, ns, nd, norm) ==
        IF Len(nd.e) > 0
          THEN finalizeRobustFormattingResult(params.context, Absent, nd.w, nd.e,
                 <<"required", "normalize">>) @@ [norm |-> norm]
        ELSE CaptureFormatter("formatBigIntToViewTokenAmount", params.context,
               formatBigIntToViewTokenAmount(
                 [t |-> "object", bigIntValue |-> nb.v, symbol |-> ns.v, decimals |-> nd.v],
                 params.options),
               nd.w, nd.e, <<"required", "normalize", "format">>, norm)
      Normalized(nb, ns, nd) ==
        Format(nb, ns, nd,
               [ran |-> TRUE, bigIntValue |-> nb.v, symbol |-> ns.v, decimals |-> nd.v])
      NormalizeDecimals(nb, ns) ==
        Normalized(nb, ns, normalizeDecimals(Field(input, "decimals"), nb.w, ns.e))
      NormalizeSymbol(nb) == NormalizeDecimals(nb, normalizeSymbol(Field(input, "symbol"), nb.e))
      Required(req) ==
        IF req.missing
          THEN finalizeRobustFormattingResult(params.context, Absent, req.w, req.e,
                 <<"required">>) @@ [norm |-> NotRun]
          ELSE NormalizeSymbol(normalizeBigIntValue(Field(input, "bigIntValue"), req.w, req.e))
  IN  Required(reportMissingRequiredFields(input, EffectiveRequiredFields(params), <<>>, <<>>,
                                           params.missingRequiredFieldSeverity))

(***************************************************************************)
(* robust-calculate-token-value.ts                                         *)
(***************************************************************************)
\* Mutation of normalizeTokenPriceToScaledBigInt: unknown price decimals
\* default to 0 instead of being an error.
normalizeTokenPriceToScaledBigInt_DefaultsDecimals(tokenPrice, tokenPriceDecimals, warnings, errors) ==
  LET places == IF tokenPriceDecimals.t = "undefined" THEN 0 ELSE tokenPriceDecimals.n IN
  IF IsNullish(tokenPrice) THEN [v |-> Undefined, w |-> warnings, e |-> errors]
  ELSE IF tokenPrice.t = "bigint" THEN [v |-> tokenPrice, w |-> warnings, e |-> errors]
  ELSE IF tokenPrice.t = "number" THEN
    IF ~IsFinite(tokenPrice) \/ tokenPrice.n < 0 \/ ~parseUnits(NumberToChars(tokenPrice), places).ok
      THEN [v |-> Undefined, w |-> warnings,
            e |-> Append(errors, "tokenPrice number cannot be used.")]
      ELSE [v |-> Big(parseUnits(NumberToChars(tokenPrice), places).v),
            w |-> warnings, e |-> errors]
  ELSE IF tokenPrice.t = "string" THEN
    LET parsed == parseUnits(Trim(tokenPrice.s), places) IN
    IF Trim(tokenPrice.s) = <<>> \/ ~parsed.ok \/ parsed.v < 0
      THEN [v |-> Undefined, w |-> warnings,
            e |-> Append(errors, "tokenPrice string cannot be used.")]
      ELSE [v |-> Big(parsed.v),
            w |-> Append(warnings,
                    "tokenPrice came as string and was parsed into scaled bigint price value."),
            e |-> errors]
  ELSE [v |-> Undefined, w |-> warnings,
        e |-> Append(errors, "tokenPrice has unsupported runtime type.")]

\* tokenPriceDecimals is the normalized count (a number) or Undefined.
normalizeTokenPriceToScaledBigInt(tokenPrice, tokenPriceDecimals, warnings, errors) ==
  IF IsNullish(tokenPrice) THEN [v |-> Undefined, w |-> warnings, e |-> errors]
  ELSE IF tokenPrice.t = "bigint" THEN [v |-> tokenPrice, w |-> warnings, e |-> errors]
  ELSE IF tokenPriceDecimals.t = "undefined" THEN
    [v |-> Undefined, w |-> warnings,
     e |-> Append(errors,
             "tokenPriceDecimals is required to parse non-bigint tokenPrice values.")]
  ELSE IF tokenPrice.t = "number" THEN
    IF ~IsFinite(tokenPrice) THEN
      [v |-> Undefined, w |-> warnings,
       e |-> Append(errors, "tokenPrice number " \o Quoted(NumberToChars(tokenPrice))
               \o " is not finite.")]
    ELSE IF tokenPrice.n < 0 THEN
      [v |-> Undefined, w |-> warnings,
       e |-> Append(errors, "tokenPrice number " \o Quoted(NumberToChars(tokenPrice))
               \o " cannot be negative.")]
    ELSE
      LET parsed == parseUnits(NumberToChars(tokenPrice), tokenPriceDecimals.n) IN
      IF parsed.ok THEN [v |-> Big(parsed.v), w |-> warnings, e |-> errors]
      ELSE [v |-> Undefined, w |-> warnings,
            e |-> Append(errors, "tokenPrice number could not be parsed: "
                    \o parsed.msg \o ".")]
  ELSE IF tokenPrice.t = "string" THEN
    LET trimmedValue == Trim(tokenPrice.s)
        warned == Append(warnings,
          "tokenPrice came as string and was parsed into scaled bigint price value.")
        parsed == parseUnits(trimmedValue, tokenPriceDecimals.n)
    IN
    IF trimmedValue = <<>> THEN
      [v |-> Undefined, w |-> warnings,
       e |-> Append(errors, "tokenPrice string is empty and cannot be parsed.")]
    ELSE IF ~parsed.ok THEN
      [v |-> Undefined, w |-> warned,
       e |-> Append(errors, "tokenPrice string " \o Quoted(tokenPrice.s)
               \o " is invalid: " \o parsed.msg \o ".")]
    ELSE IF parsed.v < 0 THEN
      [v |-> Undefined, w |-> warned,
       e |-> Append(errors, "tokenPrice string " \o Quoted(tokenPrice.s)
               \o " cannot be negative.")]
    ELSE [v |-> Big(parsed.v), w |-> warned, e |-> errors]
  ELSE [v |-> Undefined, w |-> warnings,
        e |-> Append(errors, "tokenPrice has unsupported runtime type \""
                \o resolveRuntimeType(tokenPrice) \o "\".")]

robustCalculateTokenValue(params) ==
  LET input == params.input
      hasAllRequiredInputs ==
        /\ ~IsNullish(Field(input, "tokenAmount"))
        /\ ~IsNullish(Field(input, "tokenPrice"))
        /\ ~IsNullish(Field(input, "tokenDecimals"))
        /\ ~IsNullish(Field(input, "tokenPriceDecimals"))
      Compute(na, nd, npd, np, errors, norm) ==
        IF Len(errors) > 0
          THEN finalizeRobustFormattingResult(params.context, Absent, np.w, errors,
                 <<"required", "normalize">>) @@ [norm |-> norm]
        ELSE IF na.v.t = "undefined" \/ np.v.t = "undefined" \/ nd.v.t = "undefined"
                \/ npd.v.t = "undefined"
          THEN finalizeRobustFormattingResult(params.context, Absent, np.w, errors,
                 <<"required", "normalize">>) @@ [norm |-> norm]
        ELSE IF BigIntTooLarge(nd.v.n)
          THEN finalizeRobustFormattingResult(params.context, Absent, np.w,
                 Append(errors, "token value calculation failed: Maximum BigInt size exceeded."),
                 <<"required", "normalize", "compute">>) @@ [norm |-> norm]
        ELSE
          LET divider == Pow10(nd.v.n)
              tokenValueRaw == TruncDiv(na.v.i * np.v.i, divider)
          IN  finalizeRobustFormattingResult(params.context,
                Value([tokenValueRaw |-> tokenValueRaw, tokenValueDecimals |-> npd.v.n]),
                np.w, errors, <<"required", "normalize", "compute">>) @@ [norm |-> norm]
      PriceSign(na, nd, npd, np, e1) ==
        Compute(na, nd, npd, np,
                IF np.v.t # "undefined" /\ np.v.i < 0
                  THEN Append(e1, "tokenPrice cannot be negative.") ELSE e1,
                [ran |-> TRUE, tokenAmount |-> na.v, tokenDecimals |-> nd.v,
                 tokenPriceDecimals |-> npd.v, tokenPrice |-> np.v])
      Normalized(na, nd, npd, np) ==
        PriceSign(na, nd, npd, np,
                  IF na.v.t # "undefined" /\ na.v.i < 0
                    THEN Append(np.e, "tokenAmount cannot be negative.") ELSE np.e)
      NormalizePrice(na, nd, npd) ==
        Normalized(na, nd, npd,
          normalizeTokenPriceToScaledBigInt(Field(input, "tokenPrice"), npd.v, npd.w, npd.e))
      NormalizePriceDecimals(na, nd) ==
        NormalizePrice(na, nd, normalizeDecimals(Field(input, "tokenPriceDecimals"), nd.w, nd.e))
      NormalizeDecimals(na) ==
        NormalizePriceDecimals(na, normalizeDecimals(Field(input, "tokenDecimals"), na.w, na.e))
      Required(req) ==
        IF req.missing
          THEN finalizeRobustFormattingResult(params.context, Absent, req.w, req.e,
                 <<"required">>) @@ [norm |-> NotRun]
        ELSE IF ~hasAllRequiredInputs
          THEN finalizeRobustFormattingResult(params.context, Absent, req.w, req.e,
                 <<"required">>) @@ [norm |-> NotRun]
        ELSE NormalizeDecimals(normalizeBigIntValue(Field(input, "tokenAmount"), req.w, req.e))
  IN  Required(reportMissingRequiredFields(input, params.requiredFields, <<>>, <<>>,
                                           params.missingRequiredFieldSeverity))

(***************************************************************************)
(* The calls the model makes: every combination of the inputs below.       *)
(***************************************************************************)
Chars(str) == [i \in 1..Len(str) |-> SubSeq(str, i, i)]

\* A token decimals count no engine can honour (10n ** 1000000000n, or a
\* padStart to that length).
HugeDecimals == Int2Num(1000000000)

DecimalCounts == {Int2Num(d) : d \in 0..MaxTokenDecimals}

BigIntInputs ==
  {Undefined, Null, Big(0), Big(2500), Big(-5), Big(1234567), Int2Num(12), Num(3, 2),
   Str(Chars("15")), Str(Chars(" 42 ")), Str(Chars("abc")), Obj}

DecimalsInputs ==
  DecimalCounts \cup
  {Undefined, Null, Int2Num(-1), Num(3, 2), Big(1), Str(Chars("2")), Str(Chars("x")),
   Obj, HugeDecimals}

SymbolInputs == {Undefined, Str(Chars("ETH")), Obj}

NumberInputs ==
  {Undefined, Null, Int2Num(0), Num(5, 4), Num(1, 1000), Num(-7, 2), Int2Num(1234567),
   NaN, PosInf, Str(Chars("12.5")), Str(Chars(" 3 ")), Str(Chars("abc")), Str(Chars(" ")),
   Big(42), Obj, Bool}

BadLocale == Locale("not_a_locale")

NumberOptions ==
  {NoOptions,
   [NoOptions EXCEPT !.locale = BadLocale],
   [NoOptions EXCEPT !.standardDecimals = Int2Num(101)],
   [NoOptions EXCEPT !.compactDecimals = Int2Num(-1)],
   [NoOptions EXCEPT !.minDisplay = Int2Num(1), !.maxDisplay = Int2Num(100)],
   [NoOptions EXCEPT !.compactThreshold = Int2Num(1000), !.standardDecimals = Int2Num(0)]}

TokenConfigs ==
  {NoConfig,
   [NoConfig EXCEPT !.locale = BadLocale],
   [NoConfig EXCEPT !.decimals = Int2Num(101)],
   [NoConfig EXCEPT !.decimals = Int2Num(1), !.minDisplay = Int2Num(1)],
   [NoConfig EXCEPT !.singleDigitDecimals = Int2Num(-1)],
   [NoConfig EXCEPT !.minDisplay = Int2Num(1), !.maxDisplay = Int2Num(100)]}

Severities == {"warning", "error"}

ScaleInputs ==
  {Undefined, Null, Int2Num(0), Int2Num(100), Num(1, 2), Str(Chars("0")), Str(Chars("4")),
   Str(Chars(" ")), Big(0), NaN, Obj}

PriceInputs ==
  {Undefined, Null, Big(0), Big(102), Big(-1), Int2Num(3), Num(51, 50), Num(-1, 2),
   Num(1, 10000000), NaN, Str(Chars("1.02")), Str(Chars("1.255")), Str(Chars(" 2 ")),
   Str(Chars("-2")), Str(Chars("-0.4")), Str(Chars("-0.04")), Str(Chars("-")),
   Str(Chars("abc")), Str(Chars(" ")), Obj}

AmountInputs ==
  {Undefined, Null, Big(0), Big(7), Big(2500), Big(-5), Int2Num(12), Str(Chars("15")),
   Str(Chars("-15")), Obj}

TokenDecimalsInputs ==
  DecimalCounts \cup {Undefined, Null, Int2Num(-1), Str(Chars("1")), HugeDecimals}

PriceDecimalsInputs ==
  DecimalCounts \cup {Undefined, Null, Big(1), Num(3, 2), Str(Chars("x"))}

CALCULATE_TOKEN_VALUE_FIELDS ==
  <<"tokenAmount", "tokenPrice", "tokenDecimals", "tokenPriceDecimals">>

NumberCall(v, s, o, r, sev) ==
  [op |-> "robustFormatNumberToViewNumber",
   input |-> [t |-> "object", value |-> v, symbol |-> s],
   options |-> o, requiredFields |-> r, missingRequiredFieldSeverity |-> sev,
   context |-> "robustFormatNumberToViewNumber"]

PercentCall(v, m, d, o, r, sev) ==
  [op |-> "robustFormatPercentToViewPercent",
   input |-> [t |-> "object", value |-> v],
   multiplier |-> m, divider |-> d,
   options |-> o, requiredFields |-> r, missingRequiredFieldSeverity |-> sev,
   context |-> "robustFormatPercentToViewPercent"]

PercentInputs ==
  {Undefined, Null, Int2Num(0), Num(1, 8), Num(-1, 20000), Int2Num(25),
   Str(Chars("0.5")), Str(Chars("abc")), Obj}

MultiplierInputs == {Undefined, Int2Num(100), Str(Chars("4")), NaN, Obj}

PercentOptions ==
  {NoOptions, [NoOptions EXCEPT !.locale = BadLocale],
   [NoOptions EXCEPT !.standardDecimals = Int2Num(101)]}

BigIntRequiredFields ==
  {Omitted, Given(<<>>), Given(<<"decimals">>), Given(<<"bigIntValue", "symbol">>)}

BigIntCall(op, b, s, d, o, r, sev) ==
  [op |-> op,
   input |-> [t |-> "object", bigIntValue |-> b, symbol |-> s, decimals |-> d],
   options |-> o, requiredFields |-> r, missingRequiredFieldSeverity |-> sev,
   context |-> op]

CalculateRequiredFields ==
  {Omitted, Given(CALCULATE_TOKEN_VALUE_FIELDS), Given(<<"tokenPrice">>)}

CalculateCall(a, p, d, pd, r, sev) ==
  [op |-> "robustCalculateTokenValue",
   input |-> [t |-> "object", tokenAmount |-> a, tokenPrice |-> p,
              tokenDecimals |-> d, tokenPriceDecimals |-> pd],
   requiredFields |-> r, missingRequiredFieldSeverity |-> sev,
   context |-> "robustCalculateTokenValue"]

\* A call without an input object at all (input?.field is undefined).
NoInputCall(op) ==
  [op |-> op, input |-> NoInput,
   options |-> IF op = "robustFormatBigIntToViewTokenAmount" THEN NoConfig ELSE NoOptions,
   multiplier |-> Undefined, divider |-> Undefined, requiredFields |-> Omitted,
   missingRequiredFieldSeverity |-> "warning", context |-> op]

Operations ==
  {"robustFormatNumberToViewNumber", "robustFormatPercentToViewPercent",
   "robustFormatBigIntToViewNumber", "robustFormatBigIntToViewTokenAmount",
   "robustCalculateTokenValue"}

NoResult ==
  [value |-> Absent, warnings |-> <<>>, errors |-> <<>>, emitted |-> <<>>,
   steps |-> <<>>, norm |-> NotRun]

Init ==
  /\ \/ \E v \in NumberInputs, s \in SymbolInputs, o \in NumberOptions,
          r \in {Omitted, Given(<<"value">>), Given(<<"value", "symbol">>)},
          sev \in Severities :
          call = NumberCall(v, s, o, r, sev)
     \/ \E v \in PercentInputs, m \in MultiplierInputs, d \in ScaleInputs,
          o \in PercentOptions, r \in {Omitted, Given(<<"value">>)}, sev \in Severities :
          call = PercentCall(v, m, d, o, r, sev)
     \/ \E b \in BigIntInputs, s \in SymbolInputs, d \in DecimalsInputs,
          o \in {NoOptions, [NoOptions EXCEPT !.locale = BadLocale]},
          r \in BigIntRequiredFields, sev \in Severities :
          call = BigIntCall("robustFormatBigIntToViewNumber", b, s, d, o, r, sev)
     \/ \E b \in BigIntInputs, s \in {Undefined, Str(Chars("ETH"))}, d \in DecimalsInputs,
          o \in TokenConfigs, r \in BigIntRequiredFields, sev \in Severities :
          call = BigIntCall("robustFormatBigIntToViewTokenAmount", b, s, d, o, r, sev)
     \/ \E a \in AmountInputs, p \in PriceInputs, d \in TokenDecimalsInputs,
          pd \in PriceDecimalsInputs, r \in CalculateRequiredFields, sev \in Severities :
          call = CalculateCall(a, p, d, pd, r, sev)
     \/ \E op \in Operations : call = NoInputCall(op)
  /\ pc = "ready"
  /\ result = NoResult
  /\ console = <<>>

\* The call returns result; its console.error lines are appended to console.
Return(r) ==
  /\ result' = r
  /\ console' = console \o r.emitted
  /\ pc' = "done"
  /\ UNCHANGED call

RobustFormatNumberToViewNumber ==
  /\ pc = "ready"
  /\ call.op = "robustFormatNumberToViewNumber"
  /\ Return(robustFormatNumberToViewNumber(call))

RobustFormatPercentToViewPercent ==
  /\ pc = "ready"
  /\ call.op = "robustFormatPercentToViewPercent"
  /\ Return(robustFormatPercentToViewPercent(call))

RobustFormatBigIntToViewNumber ==
  /\ pc = "ready"
  /\ call.op = "robustFormatBigIntToViewNumber"
  /\ Return(robustFormatBigIntToViewNumber(call))

RobustFormatBigIntToViewTokenAmount ==
  /\ pc = "ready"
  /\ call.op = "robustFormatBigIntToViewTokenAmount"
  /\ Return(robustFormatBigIntToViewTokenAmount(call))

RobustCalculateTokenValue ==
  /\ pc = "ready"
  /\ call.op = "robustCalculateTokenValue"
  /\ Return(robustCalculateTokenValue(call))

Next ==
  \/ RobustFormatNumberToViewNumber
  \/ RobustFormatPercentToViewPercent
  \/ RobustFormatBigIntToViewNumber
  \/ RobustFormatBigIntToViewTokenAmount
  \/ RobustCalculateTokenValue

Spec == Init /\ [][Next]_vars

Done == pc = "done"

(***************************************************************************)
(* Vocabulary of the properties.                                           *)
(***************************************************************************)
Elems(seq) == {seq[i] : i \in DOMAIN seq}

Diagnostics == Elems(result.warnings) \cup Elems(result.errors)

\* word occurs in the text msg.
Mentions(msg, word) ==
  \E i \in 1..(Len(msg) - Len(word) + 1) : SubSeq(msg, i, i + Len(word) - 1) = word

FieldNames ==
  {"value", "symbol", "bigIntValue", "decimals", "tokenAmount", "tokenPrice",
   "tokenDecimals", "tokenPriceDecimals"}

RequiredMessage(fieldName, received) ==
  fieldName \o " is required but received " \o received \o "."

IsRequiredMessage(msg) ==
  \E f \in FieldNames, v \in {"undefined", "null"} : msg = RequiredMessage(f, v)

BigIntOperations ==
  {"robustFormatBigIntToViewNumber", "robustFormatBigIntToViewTokenAmount"}

\* The required-field list the operation of the call checks.
RequiredFieldsOf(c) ==
  IF c.op \in BigIntOperations THEN EffectiveRequiredFields(c) ELSE c.requiredFields

\* The outcome of the required-field check of the call, on fresh lists.
RequiredCheck(c) ==
  reportMissingRequiredFields(c.input, RequiredFieldsOf(c), <<>>, <<>>,
                              c.missingRequiredFieldSeverity)

FormatterName(op) ==
  CASE op = "robustFormatNumberToViewNumber" -> "formatNumberToViewNumber"
    [] op = "robustFormatPercentToViewPercent" -> "formatPercentToViewPercent"
    [] op = "robustFormatBigIntToViewNumber" -> "formatBigIntToViewNumber"
    [] op = "robustFormatBigIntToViewTokenAmount" -> "formatBigIntToViewTokenAmount"

\* The deterministic formatter of the call applied to the normalized values.
FormatterOutcome(c, norm) ==
  CASE c.op = "robustFormatNumberToViewNumber" ->
         formatNumberToViewNumber(norm.value, norm.symbol, c.options)
    [] c.op = "robustFormatPercentToViewPercent" ->
         formatPercentToViewPercent(
           NumDiv(NumMul(norm.value, norm.multiplier), norm.divider), c.options)
    [] c.op = "robustFormatBigIntToViewNumber" ->
         formatBigIntToViewNumber(norm.bigIntValue, norm.decimals, norm.symbol, c.options)
    [] c.op = "robustFormatBigIntToViewTokenAmount" ->
         formatBigIntToViewTokenAmount(
           [t |-> "object", bigIntValue |-> norm.bigIntValue, symbol |-> norm.symbol,
            decimals |-> norm.decimals], c.options)

\* The warnings the normalizers of the call produce, in call order.
CoercionWarnings(c) ==
  CASE c.op = "robustFormatNumberToViewNumber" ->
         normalizeNumberValue(Field(c.input, "value"), <<>>, <<>>).w
    [] c.op = "robustFormatPercentToViewPercent" ->
         normalizeNumberValue(Field(c.input, "value"), <<>>, <<>>).w
           \o normalizeScaleFactor("multiplier", Dflt(c.multiplier, Int2Num(1)), <<>>, <<>>).w
           \o normalizeScaleFactor("divider", Dflt(c.divider, Int2Num(1)), <<>>, <<>>).w
    [] c.op \in BigIntOperations ->
         normalizeBigIntValue(Field(c.input, "bigIntValue"), <<>>, <<>>).w
           \o normalizeDecimals(Field(c.input, "decimals"), <<>>, <<>>).w
    [] c.op = "robustCalculateTokenValue" ->
         normalizeBigIntValue(Field(c.input, "tokenAmount"), <<>>, <<>>).w
           \o normalizeDecimals(Field(c.input, "tokenDecimals"), <<>>, <<>>).w
           \o normalizeDecimals(Field(c.input, "tokenPriceDecimals"), <<>>, <<>>).w

FormatterRan == \E i \in DOMAIN result.steps : result.steps[i] = "format"

(***************************************************************************)
(* C1                                                                      *)
(***************************************************************************)
\* A call with bigIntValue present, decimals missing and the default
\* required fields: warnings only.
C1_WarningsOnlyCall ==
  BigIntCall("robustFormatBigIntToViewNumber", Big(2500), Undefined, Undefined,
             NoOptions, Omitted, "warning")

\* The same call with requiredFields = []: no diagnostics at all.
C1_SilentCall ==
  BigIntCall("robustFormatBigIntToViewNumber", Big(2500), Undefined, Undefined,
             NoOptions, Given(<<>>), "warning")

\* C1: for each of the five robust operations and every input, a result
\* whose errors list is non-empty has value undefined.  The converse fails:
\* a result with value undefined and errors empty exists, with warnings only
\* (C1_WarningsOnlyCall) and with no diagnostics at all (C1_SilentCall).
C1_ErrorsImplyNoValue ==
  /\ Done /\ Len(result.errors) > 0 => result.value = Absent
  /\ LET r == robustFormatBigIntToViewNumber(C1_WarningsOnlyCall)
     IN  r.value = Absent /\ r.errors = <<>> /\ Len(r.warnings) > 0
  /\ LET r == robustFormatBigIntToViewNumber(C1_SilentCall)
     IN  r.value = Absent /\ r.errors = <<>> /\ r.warnings = <<>>

\* An error raised after the formatter had been invoked: the value the call
\* was about to return is withheld.
C1_Witness ==
  /\ Done
  /\ FormatterRan
  /\ Len(result.errors) > 0
  /\ result.value = Absent

(***************************************************************************)
(* C2                                                                      *)
(***************************************************************************)
\* C2: no robust wrapper raises: the outcome of a call is a triple whose
\* value is a value or undefined, never a fault that escaped.  When the
\* deterministic formatter faults on the normalized
\* values (invalid locale, fraction-digit count outside 0..100, a decimals
\* count too large to pad to) the result has value undefined, errors is
\* exactly the message "<formatter> threw: <fault>." and warnings are the
\* coercion warnings accumulated before the call; when the big-integer
\* power of the calculator faults, the result has value undefined and the
\* message "token value calculation failed: ..." as its only error, with
\* the coercion warnings kept.
C2_FaultsAreCaptured ==
  /\ Done => result.value.tag \in {"value", "absent"}
  /\ Done /\ FormatterRan =>
       LET outcome == FormatterOutcome(call, result.norm) IN
       outcome.tag = "throw" =>
         /\ result.value = Absent
         /\ result.errors =
              <<FormatterName(call.op) \o " threw: " \o outcome.msg \o ".">>
         /\ result.warnings = CoercionWarnings(call)
  /\ Done /\ call.op = "robustCalculateTokenValue" /\ result.norm.ran
       /\ result.norm.tokenDecimals.t = "number"
       /\ BigIntTooLarge(result.norm.tokenDecimals.n)
       /\ result.norm.tokenAmount.t = "bigint" /\ result.norm.tokenAmount.i >= 0
       /\ result.norm.tokenPrice.t = "bigint" /\ result.norm.tokenPrice.i >= 0
       /\ result.norm.tokenPriceDecimals.t = "number" =>
         /\ result.value = Absent
         /\ result.errors =
              <<"token value calculation failed: Maximum BigInt size exceeded.">>
         /\ \A i \in DOMAIN CoercionWarnings(call) :
              CoercionWarnings(call)[i] \in Elems(result.warnings)

\* The formatter faulted after a coercion had produced a warning.
C2_Witness ==
  /\ Done
  /\ FormatterRan
  /\ FormatterOutcome(call, result.norm).tag = "throw"
  /\ Len(result.warnings) > 0
  /\ Len(result.errors) = 1

(***************************************************************************)
(* C3                                                                      *)
(***************************************************************************)
\* C3: in every robust wrapper, when the required-field check fails the
\* call returns at once: value is undefined, warnings and errors are exactly
\* what the required-field check produced, every diagnostic is a
\* "<field> is required but received undefined|null." message, and the call
\* went through no normalization and no formatter step.
C3_RequiredFailureReturnsAtOnce ==
  Done /\ RequiredCheck(call).missing =>
    /\ result.value = Absent
    /\ result.warnings = RequiredCheck(call).w
    /\ result.errors = RequiredCheck(call).e
    /\ \A m \in Diagnostics : IsRequiredMessage(m)
    /\ result.steps = <<"required">>
    /\ ~result.norm.ran

\* The required-field check failed while another field of the input was
\* malformed: the malformed field is not reported.
C3_Witness ==
  /\ Done
  /\ RequiredCheck(call).missing
  /\ call.op = "robustFormatBigIntToViewNumber"
  /\ Field(call.input, "bigIntValue") = Obj
  /\ Field(call.input, "decimals") = Undefined
  /\ result.warnings = <<"decimals is required but received undefined.">>
  /\ result.errors = <<>>

(***************************************************************************)
(* C4                                                                      *)
(***************************************************************************)
\* C4: in the two bigint wrappers called without a requiredFields list,
\* (a) when bigIntValue is undefined or null no required-field diagnostic is
\* produced and, decimals being missing too, no diagnostic mentions decimals
\* at all; (b) when bigIntValue is present and decimals is undefined or
\* null, value is undefined and "decimals is required but received ..." is
\* in warnings under severity "warning" and in errors under severity
\* "error", and in that list only.
C4_DefaultDecimalsRequirement ==
  Done /\ call.op \in BigIntOperations /\ ~call.requiredFields.given =>
    LET bigIntValue == Field(call.input, "bigIntValue")
        decimals == Field(call.input, "decimals")
        msg == RequiredMessage("decimals", decimals.t)
    IN
    /\ IsNullish(bigIntValue) =>
         /\ \A m \in Diagnostics : ~IsRequiredMessage(m)
         /\ IsNullish(decimals) => \A m \in Diagnostics : ~Mentions(m, "decimals")
    /\ ~IsNullish(bigIntValue) /\ IsNullish(decimals) =>
         /\ result.value = Absent
         /\ IF call.missingRequiredFieldSeverity = "error"
              THEN msg \in Elems(result.errors) /\ msg \notin Elems(result.warnings)
              ELSE msg \in Elems(result.warnings) /\ msg \notin Elems(result.errors)

\* bigIntValue present, decimals null, severity "error", in the token-amount
\* wrapper.
C4_Witness ==
  /\ Done
  /\ call.op = "robustFormatBigIntToViewTokenAmount"
  /\ ~call.requiredFields.given
  /\ Field(call.input, "bigIntValue") = Big(2500)
  /\ Field(call.input, "decimals") = Null
  /\ call.missingRequiredFieldSeverity = "error"
  /\ result.errors = <<"decimals is required but received null.">>
  /\ result.value = Absent

(***************************************************************************)
(* C5                                                                      *)
(***************************************************************************)
\* The fields of a bigint input that are present coerce without an error.
PresentFieldsWellFormed(c) ==
  /\ normalizeBigIntValue(Field(c.input, "bigIntValue"), <<>>, <<>>).e = <<>>
  /\ normalizeSymbol(Field(c.input, "symbol"), <<>>).e = <<>>

\* C5 as stated: in the bigint wrappers with requiredFields = [],
\* bigIntValue present and decimals missing, the result has value undefined,
\* errors empty, no diagnostic about decimals, and as warnings only the
\* coercion warnings of the present fields.
C5_AsStated ==
  Done /\ call.op \in BigIntOperations /\ call.requiredFields = Given(<<>>)
       /\ ~IsNullish(Field(call.input, "bigIntValue"))
       /\ IsNullish(Field(call.input, "decimals")) =>
    /\ result.value = Absent
    /\ result.errors = <<>>
    /\ \A m \in Diagnostics : ~Mentions(m, "decimals")
    /\ result.warnings = CoercionWarnings(call)

\* C5 (amended): an explicit requiredFields list replaces the default: when
\* the list does not name decimals, no "decimals is required" message is
\* produced; with requiredFields = [], bigIntValue present and decimals
\* missing, value is undefined and no diagnostic mentions decimals; errors
\* is empty and warnings are exactly the coercion warnings of the present
\* fields provided bigIntValue and symbol coerce without error, and
\* otherwise errors holds the coercion errors of the malformed fields.
C5_ExplicitListReplacesDefault ==
  Done /\ call.op \in BigIntOperations /\ call.requiredFields.given =>
    /\ "decimals" \notin Elems(call.requiredFields.fields) =>
         \A m \in Diagnostics :
           m \notin {RequiredMessage("decimals", v) : v \in {"undefined", "null"}}
    /\ call.requiredFields = Given(<<>>)
         /\ ~IsNullish(Field(call.input, "bigIntValue"))
         /\ IsNullish(Field(call.input, "decimals")) =>
         /\ result.value = Absent
         /\ \A m \in Diagnostics : ~Mentions(m, "decimals")
         /\ result.warnings = CoercionWarnings(call)
         /\ IF PresentFieldsWellFormed(call)
              THEN result.errors = <<>>
              ELSE result.errors =
                     normalizeSymbol(Field(call.input, "symbol"),
                       normalizeBigIntValue(Field(call.input, "bigIntValue"), <<>>, <<>>).e).e

\* requiredFields = [], bigIntValue a digit string, decimals missing: the
\* only diagnostic is the coercion warning of bigIntValue.
C5_Witness ==
  /\ Done
  /\ call.op \in BigIntOperations
  /\ call.requiredFields = Given(<<>>)
  /\ Field(call.input, "bigIntValue") = Str(Chars("15"))
  /\ IsNullish(Field(call.input, "decimals"))
  /\ result.value = Absent
  /\ result.errors = <<>>
  /\ result.warnings =
       <<"bigIntValue came as string and was automatically converted to bigint.">>

(***************************************************************************)
(* C6                                                                      *)
(***************************************************************************)
ZeroDividerError == "divider cannot be zero."

\* C6: in robustFormatPercentToViewPercent, whenever the divider normalizes
\* to zero - the normalizers ran and returned 0 for it, which is the case
\* for each call that passes the required-field check with divider 0, "0"
\* or 0n - value is undefined, errors contains "divider cannot be zero.",
\* whatever the value and the multiplier, and the call went through neither
\* the division nor the formatter.
C6_ZeroDividerIsError ==
  Done /\ call.op = "robustFormatPercentToViewPercent" =>
    LET zero == /\ result.norm.ran
                /\ result.norm.divider.t = "number"
                /\ result.norm.divider.n = 0
    IN
    /\ ~RequiredCheck(call).missing
         /\ call.divider \in {Int2Num(0), Str(Chars("0")), Big(0)} => zero
    /\ zero =>
         /\ result.value = Absent
         /\ ZeroDividerError \in Elems(result.errors)
         /\ result.steps = <<"required", "normalize">>

\* Divider "0" with a multiplier that is not number-like: both errors are
\* reported, and the zero-divider error is among them.
C6_Witness ==
  /\ Done
  /\ call.op = "robustFormatPercentToViewPercent"
  /\ call.divider = Str(Chars("0"))
  /\ call.multiplier = Obj
  /\ Field(call.input, "value") = Num(1, 8)
  /\ result.value = Absent
  /\ ZeroDividerError \in Elems(result.errors)
  /\ Len(result.errors) = 2

(***************************************************************************)
(* C7                                                                      *)
(***************************************************************************)
\* The price of the call as a rational: the number, or the value of the
\* trimmed decimal string.
PriceAsNumber(c) ==
  LET price == Field(c.input, "tokenPrice") IN
  IF price.t = "number" THEN price ELSE StringToNumber(Trim(price.s))

\* The price is a bigint, a finite number or a decimal literal (a string
\* such as "-", which parseUnits reads as 0, denotes no number).
PriceDenotesNumber(c) ==
  \/ Field(c.input, "tokenPrice").t = "bigint"
  \/ Field(c.input, "tokenPrice").t \in {"number", "string"} /\ IsFinite(PriceAsNumber(c))

\* The price as an integer at pd decimal places: a bigint price as it is, a
\* decimal price times 10^pd, to the nearest integer when it has more than
\* pd fraction digits.
PriceAtPlaces(c, pd) ==
  LET price == Field(c.input, "tokenPrice") IN
  IF price.t = "bigint" THEN price.i
  ELSE (IF PriceAsNumber(c).n < 0 THEN -1 ELSE 1) * ScaledRound(NumAbs(PriceAsNumber(c)), pd)

\* C7: when robustCalculateTokenValue returns a value for a price that
\* denotes a number, tokenValueRaw is the
\* quotient of amount * scaledPrice by 10^amountDecimals truncated toward
\* zero (q with |q| * 10^d <= |amount * scaledPrice| < (|q| + 1) * 10^d and
\* the sign of the product), where scaledPrice is the price as an integer at
\* priceDecimals places, and tokenValueDecimals is the normalized
\* priceDecimals.  The example of the claim with the scales reduced to fit
\* (amount 2500 at 3 decimals, price 1.02, 2 price decimals) gives 255 and 2.
C7_TokenValueArithmetic ==
  /\ Done /\ call.op = "robustCalculateTokenValue" /\ result.value.tag = "value"
       /\ PriceDenotesNumber(call) =>
       LET amount == result.norm.tokenAmount.i
           d == result.norm.tokenDecimals.n
           pd == result.norm.tokenPriceDecimals.n
           product == amount * PriceAtPlaces(call, pd)
           raw == result.value.v.tokenValueRaw
       IN
       /\ Abs(raw) * Pow10(d) <= Abs(product)
       /\ Abs(product) < (Abs(raw) + 1) * Pow10(d)
       /\ raw # 0 => (raw > 0) = (product > 0)
       /\ result.value.v.tokenValueDecimals = pd
  /\ robustCalculateTokenValue(
       CalculateCall(Big(2500), Num(51, 50), Int2Num(3), Int2Num(2), Omitted, "warning")).value
       = Value([tokenValueRaw |-> 255, tokenValueDecimals |-> 2])

\* A decimal string price and a product that 10^amountDecimals does not
\* divide: the remainder is dropped.
C7_Witness ==
  /\ Done
  /\ call.op = "robustCalculateTokenValue"
  /\ result.value.tag = "value"
  /\ Field(call.input, "tokenPrice") = Str(Chars("1.02"))
  /\ result.norm.tokenAmount.i = 7
  /\ result.norm.tokenDecimals.n = 2
  /\ result.norm.tokenPriceDecimals.n = 2
  /\ result.value.v.tokenValueRaw = 7

(***************************************************************************)
(* C8                                                                      *)
(***************************************************************************)
\* The input denotes a negative quantity.
IsNegativeInput(v) ==
  \/ v.t = "bigint" /\ v.i < 0
  \/ v.t = "number" /\ v.k = "fin" /\ v.n < 0
  \/ v.t = "string" /\ IsFinite(StringToNumber(Trim(v.s)))
       /\ StringToNumber(Trim(v.s)).n < 0

AllCalculateFieldsPresent(c) ==
  \A i \in DOMAIN CALCULATE_TOKEN_VALUE_FIELDS :
    ~IsNullish(Field(c.input, CALCULATE_TOKEN_VALUE_FIELDS[i]))

\* The amount and both decimals fields of the call normalize.
CalculateInputsWellFormed(c) ==
  /\ normalizeBigIntValue(Field(c.input, "tokenAmount"), <<>>, <<>>).v.t = "bigint"
  /\ normalizeDecimals(Field(c.input, "tokenDecimals"), <<>>, <<>>).v.t = "number"
  /\ normalizeDecimals(Field(c.input, "tokenPriceDecimals"), <<>>, <<>>).v.t = "number"

\* C8: in robustCalculateTokenValue (all four fields present, the amount
\* and both decimals well-formed) a negative tokenAmount or tokenPrice, given as bigint,
\* number or string, yields value undefined and an error naming a negative
\* field; and whenever value is present tokenValueRaw >= 0.
C8_NegativeIsError ==
  Done /\ call.op = "robustCalculateTokenValue" =>
    /\ AllCalculateFieldsPresent(call) /\ CalculateInputsWellFormed(call) =>
         LET negative == {f \in {"tokenAmount", "tokenPrice"} :
                           IsNegativeInput(Field(call.input, f))}
         IN  negative # {} =>
               /\ result.value = Absent
               /\ \E e \in Elems(result.errors), f \in negative :
                    Mentions(e, f) /\ Mentions(e, "cannot be negative")
    /\ result.value.tag = "value" => result.value.v.tokenValueRaw >= 0

(***************************************************************************)
(* C9                                                                      *)
(***************************************************************************)
\* C9: robustCalculateTokenValue called without requiredFields treats the
\* four fields as required: when any of them is undefined or null, value is
\* undefined and for each missing field "<field> is required but received
\* undefined|null." is in warnings under severity "warning" and in errors
\* under severity "error".
C9_FourFieldsAlwaysRequired ==
  Done /\ call.op = "robustCalculateTokenValue" /\ ~call.requiredFields.given
       /\ ~AllCalculateFieldsPresent(call) =>
    /\ result.value = Absent
    /\ \A i \in DOMAIN CALCULATE_TOKEN_VALUE_FIELDS :
         LET f == CALCULATE_TOKEN_VALUE_FIELDS[i]
             v == Field(call.input, f)
         IN  IsNullish(v) =>
               RequiredMessage(f, v.t) \in
                 (IF call.missingRequiredFieldSeverity = "error"
                    THEN Elems(result.errors) ELSE Elems(result.warnings))

(***************************************************************************)
(* C10                                                                     *)
(***************************************************************************)
PriceDecimalsError ==
  "tokenPriceDecimals is required to parse non-bigint tokenPrice values."

\* The price is a number or a string and its decimal places are not known.
DecimalPriceWithoutPlaces(c) ==
  /\ Field(c.input, "tokenPrice").t \in {"number", "string"}
  /\ normalizeDecimals(Field(c.input, "tokenPriceDecimals"), <<>>, <<>>).v.t = "undefined"

\* C10 as stated: a number or string price whose tokenPriceDecimals is
\* missing or fails normalization yields value undefined and a non-empty
\* errors list with a message about the price decimals.
C10_AsStated ==
  Done /\ call.op = "robustCalculateTokenValue" /\ DecimalPriceWithoutPlaces(call) =>
    /\ result.value = Absent
    /\ \E e \in Elems(result.errors) : Mentions(e, "ecimals")

\* C10 (amended): a number or string price whose tokenPriceDecimals is
\* missing or fails normalization never yields a value.  When
\* tokenPriceDecimals is present but fails normalization and the call
\* reaches normalization (no required-field failure, the four fields
\* present), errors holds the normalization error of tokenPriceDecimals
\* followed by "tokenPriceDecimals is required to parse non-bigint
\* tokenPrice values.".  When tokenPriceDecimals is undefined or null the
\* call returns before normalization: that error is not produced and every
\* diagnostic is a required-field message.
C10_UnknownPriceDecimals ==
  Done /\ call.op = "robustCalculateTokenValue" /\ DecimalPriceWithoutPlaces(call) =>
    /\ result.value = Absent
    /\ IF IsNullish(Field(call.input, "tokenPriceDecimals"))
         THEN /\ PriceDecimalsError \notin Diagnostics
              /\ \A m \in Diagnostics : IsRequiredMessage(m)
              /\ ~result.norm.ran
         ELSE ~RequiredCheck(call).missing /\ AllCalculateFieldsPresent(call) =>
                \E i \in 1..(Len(result.errors) - 1) :
                  /\ result.errors[i] \in
                       Elems(normalizeDecimals(Field(call.input, "tokenPriceDecimals"),
                                               <<>>, <<>>).e)
                  /\ result.errors[i + 1] = PriceDecimalsError

\* A decimal string price with tokenPriceDecimals "x".
C10_Witness ==
  /\ Done
  /\ call.op = "robustCalculateTokenValue"
  /\ Field(call.input, "tokenPrice") = Str(Chars("1.02"))
  /\ Field(call.input, "tokenPriceDecimals") = Str(Chars("x"))
  /\ result.value = Absent
  /\ PriceDecimalsError \in Elems(result.errors)
  /\ Len(result.errors) = 2

(***************************************************************************)
(* The deterministic formatters called directly, one call per behaviour:   *)
(* FormatterInit draws the formatter and its arguments, one action per     *)
(* formatter applies it; result is then what the call returned (Absent or  *)
(* Value) or the fault it raised (Throw).                                  *)
(***************************************************************************)
ViewNumberInputs ==
  {Undefined, Null, Int2Num(0), Num(49, 10000), Num(6, 1000), Num(4, 1000), Num(-4, 1000),
   Num(1, 100), Num(5, 4), Num(-7, 2), Num(999996, 1000), Num(1234567, 1000),
   Num(123456, 10), Int2Num(10000), Int2Num(1234567), NaN, PosInf,
   Str(Chars("0.0049")), Str(Chars("-0.004")), Str(Chars(" 3 ")), Str(Chars("abc"))}

ViewSymbols == {Undefined, Str(Chars("$")), Str(Chars("ETH"))}

ViewNumberOptions ==
  {NoOptions,
   [NoOptions EXCEPT !.locale = BadLocale],
   [NoOptions EXCEPT !.standardDecimals = Int2Num(0)],
   [NoOptions EXCEPT !.standardDecimals = Int2Num(1), !.compactDecimals = Int2Num(0)],
   [NoOptions EXCEPT !.minDisplay = Num(1, 100)],
   [NoOptions EXCEPT !.minDisplay = Int2Num(2), !.maxDisplay = Int2Num(10000)],
   [NoOptions EXCEPT !.maxDisplay = Num(7, 2)],
   [NoOptions EXCEPT !.minDisplay = Int2Num(100), !.maxDisplay = Int2Num(1)],
   [NoOptions EXCEPT !.compactThreshold = Int2Num(1000)]}

\* Ratios: 0.0954, -0.00001, 0.000049 and 0.00006 are 9.54, -0.001, 0.0049
\* and 0.006 percent.
ViewPercentInputs ==
  {Undefined, Null, Int2Num(0), Num(954, 10000), Num(-1, 100000), Num(49, 1000000),
   Num(6, 100000), Num(1, 8), Num(-1, 2), Int2Num(25), Num(-7, 200), Int2Num(12345),
   NaN, PosInf, Str(Chars("0.5")), Str(Chars("abc"))}

ViewBigIntInputs ==
  {Undefined, Null, Big(0), Big(5), Big(-5), Big(2500), Big(-2500), Big(1234567),
   Str(Chars("15")), Str(Chars(" 42 ")), Str(Chars("abc")), Str(Chars("1.5")),
   Int2Num(12), Num(3, 2), Obj}

ViewDecimalsInputs == DecimalCounts \cup {Undefined, Null, HugeDecimals}

ViewTokenConfigs ==
  {NoConfig,
   [NoConfig EXCEPT !.locale = BadLocale],
   [NoConfig EXCEPT !.decimals = Int2Num(1)],
   [NoConfig EXCEPT !.decimals = Int2Num(1), !.minDisplay = Int2Num(10),
                    !.singleDigitDecimals = Int2Num(2)],
   [NoConfig EXCEPT !.decimals = Int2Num(1), !.maxDisplay = Int2Num(100)],
   [NoConfig EXCEPT !.minDisplay = Num(1, 10), !.singleDigitDecimals = Int2Num(2)],
   [NoConfig EXCEPT !.minDisplay = Int2Num(10), !.maxDisplay = Int2Num(100)],
   [NoConfig EXCEPT !.minDisplay = Int2Num(100), !.maxDisplay = Int2Num(1)],
   [NoConfig EXCEPT !.maxDisplay = Int2Num(2500)],
   [NoConfig EXCEPT !.singleDigitDecimals = Int2Num(-1)]}

FormatNumberCall(input, symbol, opts) ==
  [op |-> "formatNumberToViewNumber", input |-> input, symbol |-> symbol, opts |-> opts]

FormatPercentCall(input, opts) ==
  [op |-> "formatPercentToViewPercent", input |-> input, opts |-> opts]

FormatBigIntCall(input, decimals, symbol, opts) ==
  [op |-> "formatBigIntToViewNumber", input |-> input, decimals |-> decimals,
   symbol |-> symbol, opts |-> opts]

\* data is the object { bigIntValue, symbol, decimals }, or NoInput.
FormatTokenAmountCall(data, config) ==
  [op |-> "formatBigIntToViewTokenAmount", data |-> data, config |-> config]

FormatterInit ==
  /\ \/ \E x \in ViewNumberInputs, s \in ViewSymbols, o \in ViewNumberOptions :
          call = FormatNumberCall(x, s, o)
     \/ \E r \in ViewPercentInputs, o \in ViewNumberOptions :
          call = FormatPercentCall(r, o)
     \/ \E b \in ViewBigIntInputs, d \in ViewDecimalsInputs, s \in ViewSymbols,
          o \in {NoOptions, [NoOptions EXCEPT !.locale = BadLocale],
                 [NoOptions EXCEPT !.maxDisplay = Int2Num(100)]} :
          call = FormatBigIntCall(b, d, s, o)
     \/ \E b \in ViewBigIntInputs, d \in ViewDecimalsInputs, s \in ViewSymbols,
          c \in ViewTokenConfigs :
          call = FormatTokenAmountCall(
                   [t |-> "object", bigIntValue |-> b, symbol |-> s, decimals |-> d], c)
     \/ \E b \in {Big(1234567), Big(-1234567), Big(11234567)},
          c \in {NoConfig,
                 [NoConfig EXCEPT !.decimals = Int2Num(1)],
                 [NoConfig EXCEPT !.singleDigitDecimals = Int2Num(3),
                                  !.twoDigitDecimals = Int2Num(1)],
                 [NoConfig EXCEPT !.minDisplay = Int2Num(2),
                                  !.singleDigitDecimals = Int2Num(2)],
                 [NoConfig EXCEPT !.maxDisplay = Int2Num(10)],
                 [NoConfig EXCEPT !.decimals = Int2Num(1), !.minDisplay = Int2Num(2),
                                  !.singleDigitDecimals = Int2Num(2)]} :
          call = FormatTokenAmountCall(
                   [t |-> "object", bigIntValue |-> b, symbol |-> Str(Chars("ETH")),
                    decimals |-> Int2Num(6)], c)
     \/ \E c \in ViewTokenConfigs : call = FormatTokenAmountCall(NoInput, c)
  /\ pc = "ready"
  /\ result = Absent
  /\ console = <<>>

\* The formatter returns (or raises) outcome; it writes nothing to the console.
Formatted(outcome) ==
  /\ result' = outcome
  /\ pc' = "done"
  /\ UNCHANGED <<call, console>>

FormatNumberToViewNumber ==
  /\ pc = "ready"
  /\ call.op = "formatNumberToViewNumber"
  /\ Formatted(formatNumberToViewNumber(call.input, call.symbol, call.opts))

FormatPercentToViewPercent ==
  /\ pc = "ready"
  /\ call.op = "formatPercentToViewPercent"
  /\ Formatted(formatPercentToViewPercent(call.input, call.opts))

FormatBigIntToViewNumber ==
  /\ pc = "ready"
  /\ call.op = "formatBigIntToViewNumber"
  /\ Formatted(formatBigIntToViewNumber(call.input, call.decimals, call.symbol, call.opts))

FormatBigIntToViewTokenAmount ==
  /\ pc = "ready"
  /\ call.op = "formatBigIntToViewTokenAmount"
  /\ Formatted(formatBigIntToViewTokenAmount(call.data, call.config))

FormatterNext ==
  \/ FormatNumberToViewNumber
  \/ FormatPercentToViewPercent
  \/ FormatBigIntToViewNumber
  \/ FormatBigIntToViewTokenAmount

FormatterSpec == FormatterInit /\ [][FormatterNext]_vars

Returned == pc = "done" /\ result.tag = "value"

(***************************************************************************)
(* Vocabulary of the formatter properties.                                 *)
(***************************************************************************)
NumberFormatters ==
  {"formatNumberToViewNumber", "formatPercentToViewPercent", "formatBigIntToViewNumber"}

\* The options (or config) object of the call.
OptionsOf(c) == IF c.op = "formatBigIntToViewTokenAmount" THEN c.config ELSE c.opts

FloorConfigured(c) == OptionsOf(c).minDisplay.t = "number"
CeilingConfigured(c) == OptionsOf(c).maxDisplay.t = "number"

\* The documented defaults: floor 0.01 and 2 standard digits for the number
\* formatters, no floor for token amounts.
DEFAULT_MIN_DISPLAY == Num(1, 100)
DEFAULT_STANDARD_DECIMALS == 2

StandardDecimalsOf(c) ==
  IF OptionsOf(c).standardDecimals.t = "number"
    THEN OptionsOf(c).standardDecimals.n ELSE DEFAULT_STANDARD_DECIMALS

\* The number the call displays: the input, the input read as a number, the
\* ratio times 100, or the integer at its decimal places.  NaN when the
\* input denotes no number.
AsNumber(v) ==
  IF v.t = "number" THEN v
  ELSE IF v.t = "string" THEN StringToNumber(Trim(v.s))
  ELSE IF v.t = "bigint" THEN Int2Num(v.i)
  ELSE NaN

Shown(c) ==
  CASE c.op = "formatNumberToViewNumber" -> AsNumber(c.input)
    [] c.op = "formatPercentToViewPercent" ->
         IF IsFinite(AsNumber(c.input))
           THEN Num(100 * AsNumber(c.input).n, AsNumber(c.input).d) ELSE NaN
    [] c.op = "formatBigIntToViewNumber" ->
         IF IsInteger(AsNumber(c.input)) /\ IsInteger(c.decimals)
           THEN Num(AsNumber(c.input).n, Pow10(c.decimals.n)) ELSE NaN
    [] c.op = "formatBigIntToViewTokenAmount" ->
         IF IsInteger(AsNumber(Field(c.data, "bigIntValue")))
              /\ IsInteger(Field(c.data, "decimals"))
           THEN Num(AsNumber(Field(c.data, "bigIntValue")).n,
                    Pow10(Field(c.data, "decimals").n))
           ELSE NaN

\* x to the nearest multiple of 10^-d, a tie toward +Infinity.
Nearest(x, d) == Num((2 * x.n * Pow10(d) + x.d) \div (2 * x.d), Pow10(d))

\* |x| < y, |x| > y and x = 0 for finite x and y.
MagnitudeBelow(x, y) == Abs(x.n) * y.d < y.n * x.d
MagnitudeAbove(x, y) == Abs(x.n) * y.d > y.n * x.d

\* The value of the call rounded to its standard digits.
RoundedShown(c) == Nearest(Shown(c), StandardDecimalsOf(c))

\* The value the below-floor and above-ceiling decisions are taken on: the
\* rounded value in the number formatters, the value itself for token amounts.
Compared(c) == IF c.op \in NumberFormatters THEN RoundedShown(c) ELSE Shown(c)

\* The floor in force: the caller's, else the default of the number
\* formatters.
FloorOf(c) ==
  IF FloorConfigured(c) THEN OptionsOf(c).minDisplay ELSE DEFAULT_MIN_DISPLAY

(***************************************************************************)
(* C11                                                                     *)
(***************************************************************************)
\* C11 as stated: in every formatter belowMin is true only if the caller
\* configured a floor (minDisplay) and the absolute (rounded) value is
\* strictly between 0 and that floor; it is false whenever the caller
\* configured no floor, and a non-zero input whose rounded value is 0 is not
\* flagged.
C11_AsStated ==
  Returned =>
    /\ result.v.belowMin =>
         /\ FloorConfigured(call)
         /\ Compared(call).n # 0
         /\ MagnitudeBelow(Compared(call), OptionsOf(call).minDisplay)
    /\ ~FloorConfigured(call) => ~result.v.belowMin

\* C11 amended: in the number, percent and scaled-integer formatters belowMin
\* is true exactly when the input is finite and non-zero and |rounded| is
\* strictly below the floor in force, which is minDisplay or, when the caller
\* configured none, the default 0.01 - so a non-zero input whose rounded value
\* is 0 is flagged.  In the token-amount formatter belowMin is true exactly
\* when the caller configured a floor and 0 < |value| < floor, and is false
\* without a configured floor.
C11_BelowMinRule ==
  Returned =>
    IF call.op \in NumberFormatters
      THEN result.v.belowMin <=>
             /\ IsFinite(Shown(call))
             /\ Shown(call).n # 0
             /\ MagnitudeBelow(RoundedShown(call), FloorOf(call))
      ELSE result.v.belowMin <=>
             /\ FloorConfigured(call)
             /\ IsFinite(Shown(call))
             /\ Shown(call).n # 0
             /\ MagnitudeBelow(Shown(call), OptionsOf(call).minDisplay)

\* A number formatter flagged, with no floor configured, a non-zero input
\* whose rounded value is 0; and a token amount flagged under its floor.
C11_Witness ==
  /\ Returned
  /\ call.op = "formatNumberToViewNumber"
  /\ ~FloorConfigured(call)
  /\ result.v.belowMin
  /\ RoundedShown(call).n = 0
  /\ result.v.viewValue = "0.01"

(***************************************************************************)
(* C12                                                                     *)
(***************************************************************************)
RoundingFormatters == {"formatNumberToViewNumber", "formatPercentToViewPercent"}

\* The call gives a finite non-zero value to a formatter that rounds first.
RoundsNonZero(c) ==
  /\ c.op \in RoundingFormatters
  /\ IsFinite(Shown(c))
  /\ Shown(c).n # 0

\* C12: in formatNumberToViewNumber and formatPercentToViewPercent, for a
\* non-zero finite input the below-floor decision is taken on the value
\* rounded to standardDecimals: belowMin is true exactly when |rounded| <
\* minDisplay, and then viewValue is minDisplay formatted at standardDecimals
\* digits.  0.006 with floor 0.01 and 2 digits is not flagged; 0.0049 is
\* flagged and shown as "0.01".
C12_FloorDecidedOnRounded ==
  Returned /\ RoundsNonZero(call) =>
    /\ result.v.belowMin <=> MagnitudeBelow(RoundedShown(call), FloorOf(call))
    /\ result.v.belowMin =>
         result.v.viewValue =
           FormatStandard(FloorOf(call), StandardDecimalsOf(call),
                          StandardDecimalsOf(call), TRUE)
    /\ (/\ call.op = "formatNumberToViewNumber"
        /\ FloorOf(call) = Num(1, 100)
        /\ StandardDecimalsOf(call) = 2) =>
         /\ Shown(call) = Num(6, 1000) => ~result.v.belowMin
         /\ Shown(call) = Num(49, 10000) =>
              result.v.belowMin /\ result.v.viewValue = "0.01"

\* 0.006 was formatted with floor 0.01 at 2 digits and not flagged, although
\* the input itself is below the floor.
C12_Witness ==
  /\ Returned
  /\ call.op = "formatNumberToViewNumber"
  /\ Shown(call) = Num(6, 1000)
  /\ FloorOf(call) = Num(1, 100)
  /\ StandardDecimalsOf(call) = 2
  /\ MagnitudeBelow(Shown(call), FloorOf(call))
  /\ ~result.v.belowMin
  /\ result.v.viewValue = "0.01"

C13_NumberWitness ==
  /\ Returned
  /\ call.op = "formatNumberToViewNumber"
  /\ RoundsNonZero(call)
  /\ Shown(call).n < 0
  /\ RoundedShown(call).n = 0
  /\ result.v.sign = ""

(***************************************************************************)
(* C14                                                                     *)
(***************************************************************************)
\* The text holds a minus sign.
HasMinus(text) == \E i \in 1..Len(text) : SubSeq(text, i, i) = "-"

\* What the formatter of call c returns when only the symbol is sym.
OutcomeWithSymbol(c, sym) ==
  CASE c.op = "formatNumberToViewNumber" ->
         formatNumberToViewNumber(c.input, sym, c.opts)
    [] c.op = "formatPercentToViewPercent" ->
         formatPercentToViewPercent(c.input, c.opts)
    [] c.op = "formatBigIntToViewNumber" ->
         formatBigIntToViewNumber(c.input, c.decimals, sym, c.opts)
    [] c.op = "formatBigIntToViewTokenAmount" ->
         formatBigIntToViewTokenAmount([c.data EXCEPT !.symbol = sym], c.config)

\* C14: for all four formatters and every finite input, viewValue and compact
\* are pure magnitude strings: they do not change when only the symbol
\* changes, and they never carry the minus sign of a negative value.
C14_MagnitudeStrings ==
  Returned /\ IsFinite(Shown(call)) =>
    /\ ~HasMinus(result.v.viewValue)
    /\ ~HasMinus(result.v.compact)
    /\ \A sym \in ViewSymbols :
         /\ OutcomeWithSymbol(call, sym).tag = "value"
         /\ OutcomeWithSymbol(call, sym).v.viewValue = result.v.viewValue
         /\ OutcomeWithSymbol(call, sym).v.compact = result.v.compact

\* The part of C14 the code keeps: the symbol never changes viewValue or
\* compact, and the number, percent and scaled-integer formatters return
\* them without a minus sign.
C14_SymbolIndependent ==
  Returned /\ IsFinite(Shown(call)) =>
    /\ \A sym \in ViewSymbols :
         /\ OutcomeWithSymbol(call, sym).tag = "value"
         /\ OutcomeWithSymbol(call, sym).v.viewValue = result.v.viewValue
         /\ OutcomeWithSymbol(call, sym).v.compact = result.v.compact
    /\ call.op \in NumberFormatters =>
         ~HasMinus(result.v.viewValue) /\ ~HasMinus(result.v.compact)

(***************************************************************************)
(* C15                                                                     *)
(***************************************************************************)
ZeroFormatters ==
  {"formatNumberToViewNumber", "formatPercentToViewPercent",
   "formatBigIntToViewTokenAmount"}

\* The call gives exactly zero to one of the three formatters.
FormatsZero(c) ==
  /\ c.op \in ZeroFormatters
  /\ IsFinite(Shown(c))
  /\ Shown(c).n = 0

\* The fraction digits of the standard view: standardDecimals, or for token
\* amounts the fixed decimals of the config; 2 when not configured.
StandardDigitsOf(c) ==
  IF c.op = "formatBigIntToViewTokenAmount"
    THEN IF c.config.decimals.t = "number"
           THEN c.config.decimals.n ELSE DEFAULT_STANDARD_DECIMALS
    ELSE StandardDecimalsOf(c)

CompactDigitsOf(c) ==
  IF OptionsOf(c).compactDecimals.t = "number"
    THEN OptionsOf(c).compactDecimals.n ELSE DEFAULT_STANDARD_DECIMALS

\* C15: for input exactly zero the number, percent and token-amount
\* formatters return viewValue equal to zero in standard notation at the
\* configured standard fraction digits ("0.00" at the default 2), compact
\* equal to zero in compact notation at compactDecimals, and belowMin and
\* aboveMax false whatever floor and ceiling are configured.
C15_ZeroRendering ==
  Returned /\ FormatsZero(call) =>
    /\ result.v.viewValue =
         FormatStandard(Int2Num(0), StandardDigitsOf(call), StandardDigitsOf(call), TRUE)
    /\ result.v.compact = FormatCompact(Int2Num(0), CompactDigitsOf(call))
    /\ ~result.v.belowMin
    /\ ~result.v.aboveMax

\* The part of C15 the code keeps: zero is shown as "0.00" whatever digits
\* are configured, compact is zero at compactDecimals, and no flag is set.
C15_ZeroIsAlwaysTwoDigits ==
  Returned /\ FormatsZero(call) =>
    /\ result.v.viewValue = "0.00"
    /\ result.v.compact = FormatCompact(Int2Num(0), CompactDigitsOf(call))
    /\ ~result.v.belowMin
    /\ ~result.v.aboveMax

(***************************************************************************)
(* C16                                                                     *)
(***************************************************************************)
\* formatNumberToViewNumber applied to the percent value of the call.
NumberViewOfPercent(c) ==
  formatNumberToViewNumber(Shown(c), Str(<<"%">>), c.opts)

C17_OriginalIsPercentValue ==
  (/\ Returned
   /\ call.op = "formatPercentToViewPercent"
   /\ IsFinite(Shown(call))) =>
    /\ result.v.originalValue = Join(NumberToChars(Shown(call)))
    /\ result.v.originalValueNumber = Shown(call)

\* The part of C17 the code keeps: originalValue is the percent value as a
\* string; originalValueNumber is the ratio as given.
C17_OriginalValueIsPercentString ==
  (/\ Returned
   /\ call.op = "formatPercentToViewPercent"
   /\ IsFinite(Shown(call))) =>
    /\ result.v.originalValue = Join(NumberToChars(Shown(call)))
    /\ Num(100 * result.v.originalValueNumber.n, result.v.originalValueNumber.d)
         = Shown(call)

(***************************************************************************)
(* C18                                                                     *)
(***************************************************************************)
\* The input denotes an integer: a bigint, an integer literal or an integer
\* number.
ParsableInteger(v) ==
  \/ v.t = "bigint"
  \/ v.t = "string" /\ StringToBigInt(v.s).ok
  \/ v.t = "number" /\ IsInteger(v)

InvalidAmountFault ==
  Throw("formatBigIntToViewNumber: input must be a bigint or bigint-like string")

\* The options and the decimal count are ones Intl and formatUnits accept.
AcceptedByRuntime(c) ==
  /\ c.opts.locale # BadLocale
  /\ c.decimals \in DecimalCounts

\* C18: formatBigIntToViewNumber fails with the InvalidAmount fault whenever
\* the input cannot be parsed as an integer, fails with a MissingDecimals
\* fault whenever decimals is undefined or null, and for a parsable integer
\* with decimals present returns a result without a fault.
C18_TwoFaults ==
  (pc = "done" /\ call.op = "formatBigIntToViewNumber") =>
    /\ (~ParsableInteger(call.input) /\ ~IsNullish(call.decimals)) =>
         result = InvalidAmountFault
    /\ IsNullish(call.decimals) => result.tag = "throw"
    /\ (ParsableInteger(call.input) /\ AcceptedByRuntime(call)) =>
         result.tag = "value"

\* The part of C18 the code keeps: an input that is present and not an
\* integer raises the InvalidAmount fault when decimals is present, a
\* parsable integer with decimals present gives a result, and an absent
\* decimals or input gives undefined without a fault.
C18_AbsentDecimalsIsUndefined ==
  (pc = "done" /\ call.op = "formatBigIntToViewNumber") =>
    /\ (/\ ~ParsableInteger(call.input)
        /\ ~IsNullish(call.input)
        /\ ~IsNullish(call.decimals)) => result = InvalidAmountFault
    /\ (IsNullish(call.decimals) \/ IsNullish(call.input)) => result = Absent
    /\ (ParsableInteger(call.input) /\ AcceptedByRuntime(call)) =>
         result.tag = "value"

(***************************************************************************)
(* C19                                                                     *)
(***************************************************************************)
\* The data object, its bigIntValue or its decimals is undefined or null.
TokenDataMissing(c) ==
  \/ IsNullish(c.data)
  \/ IsNullish(Field(c.data, "bigIntValue"))
  \/ IsNullish(Field(c.data, "decimals"))

\* The config and the decimal count are ones Intl and formatUnits accept.
TokenAcceptedByRuntime(c) ==
  /\ c.config.locale # BadLocale
  /\ c.config.singleDigitDecimals # Int2Num(-1)
  /\ Field(c.data, "decimals") # HugeDecimals

\* C19: formatBigIntToViewTokenAmount never raises: it returns undefined
\* whenever the data object, bigIntValue or decimals is undefined or null, and
\* for every other input - a bigIntValue that is no integer literal included -
\* it returns a result object; a missing symbol alone does not make the
\* result absent.
C19_NeverRaises ==
  (/\ pc = "done"
   /\ call.op = "formatBigIntToViewTokenAmount"
   /\ TokenAcceptedByRuntime(call)
   /\ Field(call.data, "bigIntValue").t \in {"undefined", "null", "bigint", "string", "number"}) =>
    /\ result.tag # "throw"
    /\ TokenDataMissing(call) => result = Absent
    /\ ~TokenDataMissing(call) => result.tag = "value"

\* The part of C19 the code keeps: missing data, bigIntValue or decimals
\* gives undefined, an integer bigIntValue gives a result with or without a
\* symbol, and a present bigIntValue that is no integer raises.
C19_AbsentOnlyWhenMissing ==
  (/\ pc = "done"
   /\ call.op = "formatBigIntToViewTokenAmount"
   /\ TokenAcceptedByRuntime(call)) =>
    /\ TokenDataMissing(call) <=> result = Absent
    /\ (~TokenDataMissing(call) /\ ParsableInteger(Field(call.data, "bigIntValue")))
         => result.tag = "value"
    /\ (~TokenDataMissing(call) /\ ~ParsableInteger(Field(call.data, "bigIntValue")))
         => result.tag = "throw"

(***************************************************************************)
(* C20                                                                     *)
(***************************************************************************)
\* The token-amount formatter renders the call in its fixed-decimals mode.
FixedDecimalsMode(c) ==
  c.op = "formatBigIntToViewTokenAmount" /\ c.config.decimals.t = "number"

\* The value exceeds the configured ceiling.
AboveCeiling(c) ==
  CeilingConfigured(c) /\ MagnitudeAbove(Compared(c), OptionsOf(c).maxDisplay)

\* C20: in every formatter and every rendering mode, the fixed-decimals mode
\* of the token-amount formatter included, for non-zero finite input aboveMax
\* is true exactly when a ceiling (maxDisplay) is configured and the absolute
\* (rounded) value is strictly greater than it; it is false when no ceiling
\* is configured, and a value equal to the ceiling is not flagged.
C20_AboveMaxRule ==
  (Returned /\ IsFinite(Shown(call)) /\ Shown(call).n # 0) =>
    (result.v.aboveMax <=> AboveCeiling(call))

\* The part of C20 the code keeps: outside the fixed-decimals mode aboveMax
\* follows the ceiling rule; in the fixed-decimals mode it is always false.
C20_AboveMaxOutsideFixedMode ==
  (Returned /\ IsFinite(Shown(call)) /\ Shown(call).n # 0) =>
    IF FixedDecimalsMode(call)
      THEN ~result.v.aboveMax
      ELSE result.v.aboveMax <=> AboveCeiling(call)

(***************************************************************************)
(* robust-formatting.ts: merging diagnostics and building the report.      *)
(***************************************************************************)
\* Array.from(new Set(list)): the first occurrence of every element, in
\* order.
\* Mutation of Unique: every occurrence is kept.
Unique_KeepsAll(list) == list

RECURSIVE Unique(_)
Unique(list) ==
  IF list = <<>> THEN <<>>
  ELSE
    LET front == Unique(SubSeq(list, 1, Len(list) - 1))
        last == list[Len(list)]
    IN  IF \E i \in DOMAIN front : front[i] = last THEN front ELSE Append(front, last)

\* results is the list of arguments: result objects or undefined.
mergeRobustDiagnostics(results) ==
  LET RECURSIVE FlatMap(_, _)
      FlatMap(rest, field) ==
        IF rest = <<>> THEN <<>>
        ELSE (IF IsNullish(Head(rest)) THEN <<>> ELSE Head(rest)[field])
               \o FlatMap(Tail(rest), field)
  IN  [warnings |-> Unique(FlatMap(results, "warnings")),
       errors |-> Unique(FlatMap(results, "errors"))]

\* (list ?? []).map(trim).filter(non-empty), then the Set of it in order.
\* An optional list is [t |-> "array", items |-> ...] or undefined.
UniqueLines(list) ==
  LET RECURSIVE TrimmedNonEmpty(_)
      TrimmedNonEmpty(rest) ==
        IF rest = <<>> THEN <<>>
        ELSE (IF Trim(Chars(Head(rest))) = <<>> THEN <<>>
              ELSE <<Join(Trim(Chars(Head(rest))))>>)
               \o TrimmedNonEmpty(Tail(rest))
  IN  Unique(TrimmedNonEmpty(IF IsNullish(list) THEN <<>> ELSE list.items))

buildRobustDiagnosticsMessage(diagnostics) ==
  LET Bulleted(list) == [i \in DOMAIN list |-> "- " \o list[i]]
      RECURSIVE JoinLines(_)
      JoinLines(lines) ==
        IF Len(lines) = 1 THEN Head(lines)
        ELSE Head(lines) \o "\n" \o JoinLines(Tail(lines))
      Rendered(lines) == IF Len(lines) = 0 THEN Absent ELSE Value(JoinLines(lines))
      Blocks(uniqueErrors, uniqueWarnings) ==
        Rendered((IF Len(uniqueErrors) > 0
                    THEN <<"Errors:">> \o Bulleted(uniqueErrors) ELSE <<>>)
                 \o (IF Len(uniqueWarnings) > 0
                       THEN <<"Warnings:">> \o Bulleted(uniqueWarnings) ELSE <<>>))
  IN  Blocks(UniqueLines(diagnostics.errors), UniqueLines(diagnostics.warnings))

(***************************************************************************)
(* The helpers called directly: one helper call per behaviour, and the     *)
(* report built from a merge.                                              *)
(***************************************************************************)
MessageLists ==
  {<<>>, <<"a">>, <<"a", "a">>, <<"b", " a">>, <<"  ", "a">>, <<"a", "b">>, <<"b", "", "b ">>}

DiagnosticResults ==
  {Undefined} \cup {[t |-> "object", warnings |-> w, errors |-> e] :
                      w \in MessageLists, e \in {<<>>, <<"a">>, <<"b", " a">>, <<"c", "c">>}}

\* The largest number of results merged in one call.
MaxMerged == 2

HelperObjects ==
  {NoInput, [t |-> "object"]}
    \cup {[t |-> "object", value |-> v, symbol |-> y] :
            v \in {Undefined, Null, Int2Num(0), Str(<<>>)},
            y \in {Undefined, Null, Str(Chars("ETH")), Bool}}

CoercionInputs ==
  {Undefined, Null, Big(5), Big(-1), Int2Num(3), Int2Num(0), Int2Num(-2), Num(3, 2),
   NaN, PosInf, Str(Chars("15")), Str(Chars(" 7 ")), Str(Chars("-3")), Str(Chars("1.5")),
   Str(Chars("abc")), Str(<<>>), Str(Chars("ETH")), Obj, Arr, Bool}

HelperInit ==
  /\ \/ \E i \in HelperObjects, w \in {<<>>, <<"a">>, <<"b", "a">>},
          e \in {<<>>, <<"a">>, <<"b", "a">>}, sev \in Severities,
          r \in {Omitted, Given(<<>>), Given(<<"value">>), Given(<<"symbol", "value">>),
                 Given(<<"value", "decimals", "symbol">>)} :
          call = [op |-> "reportMissingRequiredFields", input |-> i, requiredFields |-> r,
                  warnings |-> w, errors |-> e, severity |-> sev]
     \/ \E n \in 0..MaxMerged : \E rs \in [1..n -> DiagnosticResults] :
          call = [op |-> "mergeRobustDiagnostics", results |-> rs]
     \/ \E w, e \in {Undefined} \cup {[t |-> "array", items |-> m] : m \in MessageLists} :
          call = [op |-> "buildRobustDiagnosticsMessage", warnings |-> w, errors |-> e]
     \/ \E n \in {"normalizeBigIntValue", "normalizeDecimals", "normalizeNumberValue",
                  "normalizeSymbol"},
          v \in CoercionInputs, w \in {<<>>, <<"a">>, <<"b", "a">>},
          e \in {<<>>, <<"a">>, <<"b", "a">>} :
          call = [op |-> n, value |-> v, warnings |-> w, errors |-> e]
  /\ pc = "ready"
  /\ result = Absent
  /\ console = <<>>

ReportMissingRequiredFields ==
  /\ pc = "ready"
  /\ call.op = "reportMissingRequiredFields"
  /\ Formatted(reportMissingRequiredFields(call.input, call.requiredFields, call.warnings,
                                           call.errors, call.severity))

\* The merged diagnostics are kept for the report built from them.
MergeRobustDiagnostics ==
  /\ pc = "ready"
  /\ call.op = "mergeRobustDiagnostics"
  /\ result' = mergeRobustDiagnostics(call.results)
  /\ pc' = "merged"
  /\ UNCHANGED <<call, console>>

\* The report of a direct call, or of the diagnostics just merged.
BuildRobustDiagnosticsMessage ==
  \/ /\ pc = "ready"
     /\ call.op = "buildRobustDiagnosticsMessage"
     /\ Formatted([warnings |-> call.warnings, errors |-> call.errors,
                   message |-> buildRobustDiagnosticsMessage(call)])
  \/ /\ pc = "merged"
     /\ Formatted([warnings |-> [t |-> "array", items |-> result.warnings],
                   errors |-> [t |-> "array", items |-> result.errors],
                   message |-> buildRobustDiagnosticsMessage(
                                 [warnings |-> [t |-> "array", items |-> result.warnings],
                                  errors |-> [t |-> "array", items |-> result.errors]])])

\* One normalizer applied to the value and the caller's lists.  normalizeSymbol
\* takes no warnings list; the caller's list is left alone.
Normalize ==
  /\ pc = "ready"
  /\ \/ /\ call.op = "normalizeBigIntValue"
        /\ Formatted(normalizeBigIntValue(call.value, call.warnings, call.errors))
     \/ /\ call.op = "normalizeDecimals"
        /\ Formatted(normalizeDecimals(call.value, call.warnings, call.errors))
     \/ /\ call.op = "normalizeNumberValue"
        /\ Formatted(normalizeNumberValue(call.value, call.warnings, call.errors))
     \/ /\ call.op = "normalizeSymbol"
        /\ Formatted(normalizeSymbol(call.value, call.errors) @@ [w |-> call.warnings])

HelperNext ==
  \/ ReportMissingRequiredFields
  \/ MergeRobustDiagnostics
  \/ BuildRobustDiagnosticsMessage
  \/ Normalize

HelperSpec == HelperInit /\ [][HelperNext]_vars

(***************************************************************************)
(* C21                                                                     *)
(***************************************************************************)
\* The listed fields of the call, none when the list is absent.
ListedFields(c) == IF c.requiredFields.given THEN c.requiredFields.fields ELSE <<>>

\* The listed fields that are undefined or null in the input, in list order.
MissingListed(c) ==
  SelectSeq(ListedFields(c), LAMBDA f : IsNullish(Field(c.input, f)))

\* One message per missing listed field, saying what was received.
ExpectedMissingMessages(c) ==
  [i \in DOMAIN MissingListed(c) |->
     RequiredMessage(MissingListed(c)[i],
                     IF Field(c.input, MissingListed(c)[i]) = Null
                       THEN "null" ELSE "undefined")]

\* C21: reportMissingRequiredFields returns true exactly when at least one
\* listed field of the input is undefined or null (a missing input object
\* counts every listed field as undefined); it appends one message per
\* missing listed field, in list order, saying whether the field was
\* undefined or null, to errors when severity is "error" and to warnings
\* otherwise, leaving the other list and the entries already present
\* unchanged; with an absent or empty list it returns false and appends
\* nothing.
C21_RequiredFieldReport ==
  (Done /\ call.op = "reportMissingRequiredFields") =>
    /\ result.missing <=> Len(MissingListed(call)) > 0
    /\ IF call.severity = "error"
         THEN /\ result.e = call.errors \o ExpectedMissingMessages(call)
              /\ result.w = call.warnings
         ELSE /\ result.w = call.warnings \o ExpectedMissingMessages(call)
              /\ result.e = call.errors
    /\ Len(ListedFields(call)) = 0 =>
         /\ ~result.missing
         /\ result.w = call.warnings
         /\ result.e = call.errors

\* Severity "error", a null and an undefined listed field, entries already
\* in both lists: two messages were appended to errors after the old entry.
C21_Witness ==
  /\ Done
  /\ call.op = "reportMissingRequiredFields"
  /\ call.severity = "error"
  /\ call.errors = <<"a">>
  /\ call.warnings = <<"b", "a">>
  /\ call.requiredFields = Given(<<"symbol", "value">>)
  /\ result.missing
  /\ result.e = <<"a", "symbol is required but received null.",
                  "value is required but received undefined.">>
  /\ result.w = <<"b", "a">>

(***************************************************************************)
(* C22                                                                     *)
(***************************************************************************)
\* The field lists of the results given, undefined entries skipped, one
\* after the other.
RECURSIVE Concatenated(_, _)
Concatenated(results, field) ==
  IF results = <<>> THEN <<>>
  ELSE Concatenated(SubSeq(results, 1, Len(results) - 1), field)
         \o (IF results[Len(results)] = Undefined THEN <<>>
             ELSE results[Len(results)][field])

\* The position at which message first occurs in list.
FirstAt(list, message) ==
  CHOOSE i \in DOMAIN list :
    list[i] = message /\ \A j \in 1..(i - 1) : list[j] # message

\* out is list with later duplicates removed, first-seen order kept.
IsFirstSeenOrder(out, list) ==
  /\ \A i, j \in DOMAIN out : i # j => out[i] # out[j]
  /\ Elems(out) = Elems(list)
  /\ \A i, j \in DOMAIN out : i < j => FirstAt(list, out[i]) < FirstAt(list, out[j])

\* A merged output given back to merge as a result.
AsResult(merged) ==
  [t |-> "object", warnings |-> merged.warnings, errors |-> merged.errors]

\* C22: mergeRobustDiagnostics over any number of results, undefined entries
\* skipped, returns warnings equal to the concatenation of all warnings lists
\* with later duplicates removed by exact string equality, first-seen order
\* kept, and likewise errors; the output lists hold no duplicates, and merging
\* the output with itself or with any of its inputs again leaves it unchanged.
C22_MergeDeduplicates ==
  (pc = "merged" /\ call.op = "mergeRobustDiagnostics") =>
    /\ IsFirstSeenOrder(result.warnings, Concatenated(call.results, "warnings"))
    /\ IsFirstSeenOrder(result.errors, Concatenated(call.results, "errors"))
    /\ mergeRobustDiagnostics(<<AsResult(result), AsResult(result)>>) = result
    /\ \A i \in DOMAIN call.results :
         /\ mergeRobustDiagnostics(<<AsResult(result), call.results[i]>>) = result
         /\ (call.results[i] # Undefined /\ i = 1) =>
              mergeRobustDiagnostics(<<call.results[i], AsResult(result)>>) = result

\* Two results sharing messages, one of them repeating a message, were
\* merged; "a" and " a" are kept apart and every message is kept once.
C22_Witness ==
  /\ pc = "merged"
  /\ call.op = "mergeRobustDiagnostics"
  /\ Len(call.results) = 2
  /\ call.results[1] # Undefined
  /\ call.results[2] # Undefined
  /\ call.results[1].warnings = <<"a", "a">>
  /\ call.results[2].warnings = <<"b", " a">>
  /\ call.results[1].errors = <<"b", " a">>
  /\ call.results[2].errors = <<"a">>
  /\ result.warnings = <<"a", "b", " a">>
  /\ result.errors = <<"b", " a", "a">>

\* An undefined entry among the results was skipped.
C22_UndefinedSkipped ==
  /\ pc = "merged"
  /\ Len(call.results) = 2
  /\ call.results[1] = Undefined
  /\ call.results[2] # Undefined
  /\ result.warnings = <<"a", "b">>

(***************************************************************************)
(* C23                                                                     *)
(***************************************************************************)
\* The lines of a text, split at its newlines.
RECURSIVE SplitLines(_)
SplitLines(chars) ==
  IF \A i \in DOMAIN chars : chars[i] # "\n" THEN <<Join(chars)>>
  ELSE
    LET at == CHOOSE i \in DOMAIN chars :
                chars[i] = "\n" /\ \A j \in 1..(i - 1) : chars[j] # "\n"
    IN  <<Join(SubSeq(chars, 1, at - 1))>>
          \o SplitLines(SubSeq(chars, at + 1, Len(chars)))

ReportLines == SplitLines(Chars(result.message.v))

\* The lines of the report that are the bullet of message.
BulletsOf(message) == {i \in DOMAIN ReportLines : ReportLines[i] = "- " \o message}

\* The distinct non-blank trimmed messages the report was built from.
ReportedMessages ==
  Elems(UniqueLines(result.errors)) \cup Elems(UniqueLines(result.warnings))

\* A report was built from the diagnostics merged by the call.
ReportOfMerge == pc = "done" /\ call.op = "mergeRobustDiagnostics"

\* The frame of the report: absent without a non-blank message, otherwise
\* only headings and bullets of messages, the "Errors:" block before the
\* "Warnings:" block, no bullet of a blank line.
ReportIsFramed ==
  /\ result.message = Absent <=> ReportedMessages = {}
  /\ result.message # Absent =>
       /\ \A i \in DOMAIN ReportLines :
            \/ ReportLines[i] \in {"Errors:", "Warnings:"}
            \/ \E m \in ReportedMessages : ReportLines[i] = "- " \o m
       /\ \A i, j \in DOMAIN ReportLines :
            (ReportLines[i] = "Errors:" /\ ReportLines[j] = "Warnings:") => i < j
       /\ \A i, j \in DOMAIN ReportLines :
            (ReportLines[j] = "Warnings:" /\ i > j) =>
              \E m \in Elems(UniqueLines(result.warnings)) : ReportLines[i] = "- " \o m
       /\ \A i, j \in DOMAIN ReportLines :
            (ReportLines[j] = "Warnings:" /\ 1 < i /\ i < j) =>
              \E m \in Elems(UniqueLines(result.errors)) : ReportLines[i] = "- " \o m

\* C23: the report built by buildRobustDiagnosticsMessage from diagnostics
\* merged across pipeline steps never duplicates a message: every distinct
\* non-blank trimmed message appears exactly once in the whole report, the
\* "Errors:" bulleted block precedes the "Warnings:" bulleted block, blank
\* lines are omitted, and the result is absent when there is no non-blank
\* message.
C23_ReportNeverDuplicates ==
  ReportOfMerge =>
    /\ ReportIsFramed
    /\ result.message # Absent =>
         \A m \in ReportedMessages : Cardinality(BulletsOf(m)) = 1

\* The part of C23 the code keeps: within the errors block and within the
\* warnings block every message appears once, and the report is framed as
\* claimed; a message merged both as a warning and as an error is listed in
\* both blocks.
C23_NoDuplicatesWithinBlock ==
  (pc = "done" /\ call.op \in {"mergeRobustDiagnostics", "buildRobustDiagnosticsMessage"}) =>
    /\ ReportIsFramed
    /\ result.message # Absent =>
         \A m \in ReportedMessages :
           Cardinality(BulletsOf(m)) =
             (IF m \in Elems(UniqueLines(result.errors)) THEN 1 ELSE 0)
               + (IF m \in Elems(UniqueLines(result.warnings)) THEN 1 ELSE 0)

(***************************************************************************)
(* The wrappers and their sink.  reportRobustFormattingDiagnostics calls   *)
(* console.error, which the caller may replace: it logs, it is silenced    *)
(* (the lines go elsewhere), or it throws.  A throw out of the success     *)
(* path is caught by the wrapper's catch, whose own finalize calls the     *)
(* sink again; a throw out of any other return leaves the wrapper.         *)
(***************************************************************************)
SinkBehaviours == {"logs", "silenced", "throws"}

\* The wrapper of the call with a sink that returns.
RobustReturn(c) ==
  CASE c.op = "robustFormatNumberToViewNumber" -> robustFormatNumberToViewNumber(c)
    [] c.op = "robustFormatPercentToViewPercent" -> robustFormatPercentToViewPercent(c)
    [] c.op = "robustFormatBigIntToViewNumber" -> robustFormatBigIntToViewNumber(c)
    [] c.op = "robustFormatBigIntToViewTokenAmount" -> robustFormatBigIntToViewTokenAmount(c)
    [] c.op = "robustCalculateTokenValue" -> robustCalculateTokenValue(c)

SinkInit ==
  /\ \E k \in SinkBehaviours :
       \/ \E v \in NumberInputs, s \in SymbolInputs :
            call = NumberCall(v, s, NoOptions, Omitted, "warning") @@ [sink |-> k]
       \/ \E v \in PercentInputs, d \in {Undefined, Int2Num(0), Str(Chars("4"))} :
            call = PercentCall(v, Undefined, d, NoOptions, Omitted, "warning") @@ [sink |-> k]
       \/ \E op \in BigIntOperations, b \in {Undefined, Big(2500), Str(Chars("15")), Obj},
            d \in {Undefined, Int2Num(1), Str(Chars("2"))}, sev \in Severities :
            call = BigIntCall(op, b, Undefined, d,
                              IF op = "robustFormatBigIntToViewNumber"
                                THEN NoOptions ELSE NoConfig,
                              Omitted, sev) @@ [sink |-> k]
       \/ \E a \in {Big(7), Str(Chars("15")), Obj}, p \in {Big(102), Str(Chars("1.02")), Undefined} :
            call = CalculateCall(a, p, Int2Num(1), Int2Num(2), Omitted, "warning")
                     @@ [sink |-> k]
  /\ console \in {<<>>, <<[line |-> "[earlier] a", severity |-> "warning"]>>}
  /\ pc = "ready"
  /\ result = NoResult

\* One wrapper call.  The sink is called only when the result carries a
\* diagnostic; a sink that throws makes the wrapper raise instead of return.
RobustCallWithSink ==
  LET Finish(r) ==
        IF Len(r.emitted) > 0 /\ call.sink = "throws"
          THEN /\ result' = [raised |-> TRUE]
               /\ console' = console
          ELSE /\ result' = r @@ [raised |-> FALSE]
               /\ console' = IF call.sink = "logs" THEN console \o r.emitted ELSE console
  IN  /\ pc = "ready"
      /\ Finish(RobustReturn(call))
      /\ pc' = "done"
      /\ UNCHANGED call

SinkSpec == SinkInit /\ [][RobustCallWithSink]_vars

(***************************************************************************)
(* C24                                                                     *)
(***************************************************************************)
\* One line per warning, then one per error, tagged with the context.
ExpectedEmissions(context, warnings, errors) ==
  [i \in 1..(Len(warnings) + Len(errors)) |->
     IF i <= Len(warnings)
       THEN [line |-> "[" \o context \o "] " \o warnings[i], severity |-> "warning"]
       ELSE [line |-> "[" \o context \o "] " \o errors[i - Len(warnings)],
             severity |-> "error"]]

\* What the console held before the call.
EarlierEmissions == {<<>>, <<[line |-> "[earlier] a", severity |-> "warning"]>>}

\* C24: the diagnostic sink is a pure side channel: a wrapper call emits to
\* the sink only when its result has a warning or an error - one emission per
\* warning, then one per error, tagged with the call's context - and emits
\* nothing when both lists are empty; the returned value, warnings and errors
\* are the same whatever the sink does, and no result depends on what earlier
\* calls emitted.
C24_SinkIsSideChannel ==
  Done =>
    /\ ~result.raised
    /\ result.value = RobustReturn(call).value
    /\ result.warnings = RobustReturn(call).warnings
    /\ result.errors = RobustReturn(call).errors
    /\ call.sink = "logs" =>
         \E earlier \in EarlierEmissions :
           console = earlier \o ExpectedEmissions(call.context, result.warnings, result.errors)
    /\ (Len(result.warnings) = 0 /\ Len(result.errors) = 0) => console \in EarlierEmissions

\* The part of C24 the code keeps: with a sink that returns, or a result
\* without diagnostics, the call returns the same value, warnings and errors
\* whatever was emitted before, and a logging sink receives exactly one line
\* per warning and then one per error.
C24_ReturningSinkIsSideChannel ==
  (Done /\ ~(call.sink = "throws" /\ Len(RobustReturn(call).emitted) > 0)) =>
    /\ ~result.raised
    /\ result.value = RobustReturn(call).value
    /\ result.warnings = RobustReturn(call).warnings
    /\ result.errors = RobustReturn(call).errors
    /\ call.sink = "logs" =>
         \E earlier \in EarlierEmissions :
           console = earlier \o ExpectedEmissions(call.context, result.warnings, result.errors)
    /\ (Len(result.warnings) = 0 /\ Len(result.errors) = 0) => console \in EarlierEmissions

(***************************************************************************)
(* C25                                                                     *)
(***************************************************************************)
Normalizers ==
  {"normalizeBigIntValue", "normalizeDecimals", "normalizeNumberValue", "normalizeSymbol"}

NormalizerReturned == Done /\ call.op \in Normalizers

\* The runtime type a normalizer returns for an accepted value.
TypedAs(op) ==
  CASE op = "normalizeBigIntValue" -> "bigint"
    [] op = "normalizeDecimals" -> "number"
    [] op = "normalizeNumberValue" -> "number"
    [] op = "normalizeSymbol" -> "string"

\* list is prior followed by exactly n further entries.
Appended(prior, list, n) ==
  /\ Len(list) = Len(prior) + n
  /\ SubSeq(list, 1, Len(prior)) = prior

C25_RejectedWitness ==
  /\ NormalizerReturned
  /\ call.op = "normalizeDecimals"
  /\ call.value = Int2Num(-2)
  /\ call.errors = <<"a">>
  /\ result.v = Undefined
  /\ Len(result.e) = 2

(***************************************************************************)
(* C26                                                                     *)
(***************************************************************************)
\* The compact threshold in force: the caller's, else 1,000,000.
CompactThresholdOf(c) ==
  IF c.opts.compactThreshold.t = "number" THEN c.opts.compactThreshold
  ELSE Int2Num(1000000)

NumberCallOf(input, opts) ==
  call.op = "formatNumberToViewNumber" /\ call.input = input /\ call.opts = opts

C26_CeilingWitness ==
  /\ Returned
  /\ NumberCallOf(Num(123456, 10),
                  [NoOptions EXCEPT !.minDisplay = Int2Num(2), !.maxDisplay = Int2Num(10000)])
  /\ result.v.aboveMax
  /\ result.v.viewValue = "10,000.00"

(***************************************************************************)
(* C27                                                                     *)
(***************************************************************************)
\* The call gives a finite non-zero amount to the token-amount formatter.
FormatsTokenAmount(c) ==
  /\ c.op = "formatBigIntToViewTokenAmount"
  /\ IsFinite(Shown(c))
  /\ Shown(c).n # 0

\* A digit count of the config, or its documented default.
DigitsOr(x, default) == IF x.t = "number" THEN x.n ELSE default

\* The band of the amount v >= 0 under config cfg, decided on v itself.
MagnitudeBand(v, cfg) ==
  IF cfg.minDisplay.t = "number" /\ MagnitudeBelow(v, cfg.minDisplay) THEN "floor"
  ELSE IF cfg.maxDisplay.t = "number" /\ MagnitudeAbove(v, cfg.maxDisplay) THEN "ceiling"
  ELSE IF v.n < 10 * v.d THEN "below 10"
  ELSE IF v.n \div v.d < 1000000 THEN "below 1,000,000"
  ELSE "compact"

TokenCallOf(amount, decimals, config) ==
  /\ call.op = "formatBigIntToViewTokenAmount"
  /\ Field(call.data, "bigIntValue") = amount
  /\ Field(call.data, "decimals") = Int2Num(decimals)
  /\ call.config = config

\* C27: in formatBigIntToViewTokenAmount without fixed decimals, for a
\* non-zero finite value v exactly one band applies, chosen on the unrounded
\* |v| in the order: a configured floor with 0 < |v| < floor gives belowMin and
\* the floor text; else a configured ceiling with |v| > ceiling gives aboveMax
\* and the ceiling text; else |v| < 10 gives up to singleDigitDecimals
\* fraction digits without grouping; else |v| < 1,000,000 gives up to
\* twoDigitDecimals fraction digits with grouping; else compact notation at
\* compactDecimals with an upper-case suffix.  1.234567 is "1.234567" and
\* 11.234567 is "11.23".
C27_MagnitudeBands ==
  (Returned /\ FormatsTokenAmount(call) /\ ~FixedDecimalsMode(call)) =>
    LET v == NumAbs(Shown(call))
        cfg == call.config
        sign == IF Shown(call).n < 0 THEN "-" ELSE ""
        sdd == DigitsOr(cfg.singleDigitDecimals, 6)
        tdd == DigitsOr(cfg.twoDigitDecimals, 2)
        band == MagnitudeBand(v, cfg)
    IN  /\ result.v.belowMin = (band = "floor")
        /\ result.v.aboveMax = (band = "ceiling")
        /\ result.v.viewValue =
             CASE band = "floor" -> sign \o FormatStandard(cfg.minDisplay, sdd, sdd, FALSE)
               [] band = "ceiling" -> FormatStandard(cfg.maxDisplay, 0, tdd, TRUE)
               [] band = "below 10" -> sign \o FormatStandard(v, 0, sdd, FALSE)
               [] band = "below 1,000,000" -> sign \o FormatStandard(v, 0, tdd, TRUE)
               [] band = "compact" -> sign \o FormatCompact(v, CompactDigitsOf(call))
        /\ TokenCallOf(Big(1234567), 6, NoConfig) => result.v.viewValue = "1.234567"
        /\ TokenCallOf(Big(-1234567), 6, NoConfig) => result.v.viewValue = "-1.234567"
        /\ TokenCallOf(Big(11234567), 6, NoConfig) => result.v.viewValue = "11.23"
        /\ TokenCallOf(Big(2500), 0, NoConfig) => result.v.viewValue = "2,500"
        /\ TokenCallOf(Big(1234567), 0, NoConfig) => result.v.viewValue = "1.23M"
        /\ TokenCallOf(Big(5), 0, [NoConfig EXCEPT !.minDisplay = Int2Num(10),
                                                   !.maxDisplay = Int2Num(100)])
             => result.v.viewValue = "10.000000"
        /\ TokenCallOf(Big(2500), 0, [NoConfig EXCEPT !.minDisplay = Int2Num(10),
                                                      !.maxDisplay = Int2Num(100)])
             => result.v.viewValue = "100"

\* 11.234567 falls in the band below 1,000,000 and keeps two fraction digits.
C27_Witness ==
  /\ Returned
  /\ TokenCallOf(Big(11234567), 6, NoConfig)
  /\ ~result.v.belowMin
  /\ ~result.v.aboveMax
  /\ result.v.viewValue = "11.23"

\* 1.234567 falls in the band below 10 and keeps its six fraction digits.
C27_SingleDigitWitness ==
  /\ Returned
  /\ TokenCallOf(Big(1234567), 6, NoConfig)
  /\ result.v.viewValue = "1.234567"

(***************************************************************************)
(* C28                                                                     *)
(***************************************************************************)
\* What the same call returns through the magnitude bands, i.e. without the
\* fixed decimals.
MagnitudePathView(c) ==
  formatBigIntToViewTokenAmount(c.data, [c.config EXCEPT !.decimals = Undefined]).v.viewValue

C28_FloorWitness ==
  /\ Returned
  /\ TokenCallOf(Big(5), 0, [NoConfig EXCEPT !.decimals = Int2Num(1),
                                             !.minDisplay = Int2Num(10),
                                             !.singleDigitDecimals = Int2Num(2)])
  /\ result.v.belowMin
  /\ result.v.viewValue = "10.00"

(***************************************************************************)
(* C29                                                                     *)
(***************************************************************************)
\* The fields a call coerces, in the order of the coercions.
CoercedFields(op) ==
  CASE op = "robustFormatNumberToViewNumber" -> <<"value", "symbol">>
    [] op = "robustFormatPercentToViewPercent" -> <<"value", "multiplier", "divider">>
    [] op \in BigIntOperations -> <<"bigIntValue", "symbol", "decimals">>
    [] op = "robustCalculateTokenValue" ->
         <<"tokenAmount", "tokenDecimals", "tokenPriceDecimals", "tokenPrice">>

\* A value of the field that every coercion accepts without a diagnostic.
WellFormed(f) ==
  CASE f \in {"bigIntValue", "tokenAmount"} -> Big(7)
    [] f = "tokenPrice" -> Big(102)
    [] f = "symbol" -> Str(Chars("ETH"))
    [] f \in {"decimals", "tokenDecimals"} -> Int2Num(1)
    [] f = "tokenPriceDecimals" -> Int2Num(2)
    [] f = "value" -> Int2Num(5)
    [] f \in {"multiplier", "divider"} -> Int2Num(1)

\* The value the call gives to field f.
GivenValue(c, f) ==
  IF f \in {"multiplier", "divider"} THEN c[f] ELSE Field(c.input, f)

\* The call c with every coerced field outside keep well-formed, and no
\* required fields to validate.
OnlyFields(c, keep) ==
  LET kept(g) == IF g \in keep THEN GivenValue(c, g) ELSE WellFormed(g)
      only == [c EXCEPT !.requiredFields = Given(<<>>),
                        !.input = [g \in (Elems(CoercedFields(c.op)) \ {"multiplier", "divider"})
                                           \cup {"t"} |->
                                     IF g = "t" THEN "object" ELSE kept(g)]]
  IN  IF c.op = "robustFormatPercentToViewPercent"
        THEN [only EXCEPT !.multiplier = kept("multiplier"), !.divider = kept("divider")]
        ELSE only

\* The messages of a list that the coercion stage wrote: all but the report
\* of a fault of the formatter or of the multiplication.
CoercionMessages(list) ==
  SelectSeq(list, LAMBDA m : ~Mentions(m, " threw: ") /\ ~Mentions(m, "calculation failed"))

\* The messages of kind ("warnings" or "errors") that the groups of fields
\* give one by one, each with the fields outside the group well-formed.
RECURSIVE GroupByGroup(_, _, _)
GroupByGroup(c, groups, kind) ==
  IF groups = <<>> THEN <<>>
  ELSE CoercionMessages(RobustReturn(OnlyFields(c, Head(groups)))[kind])
         \o GroupByGroup(c, Tail(groups), kind)

Occurrences(list, m) == Cardinality({i \in DOMAIN list : list[i] = m})

SameMessages(a, b) ==
  \A m \in Elems(a) \cup Elems(b) : Occurrences(a, m) = Occurrences(b, m)

\* The diagnostics of the call are those the groups of fields give one by one.
Accumulates(c, groups) ==
  /\ SameMessages(CoercionMessages(result.warnings), GroupByGroup(c, groups, "warnings"))
  /\ SameMessages(CoercionMessages(result.errors), GroupByGroup(c, groups, "errors"))

\* Every coerced field on its own.
EachField(op) == [i \in DOMAIN CoercedFields(op) |-> {CoercedFields(op)[i]}]

CoercionRan == Done /\ result.norm.ran

\* C29 as stated: in every robust wrapper and in the calculator, once the
\* required-field validation has passed, each field is coerced independently:
\* the warnings and errors of a field depend only on that field's own value,
\* so the diagnostics of the call are exactly those its fields give one by
\* one, and several malformed fields give an error each.
C29_AsStated ==
  CoercionRan => Accumulates(call, EachField(call.op))

\* C29 amended: in the four wrappers the diagnostics of the call are exactly
\* those its fields give one by one.  In the calculator this holds for
\* tokenAmount and tokenDecimals, while tokenPrice and tokenPriceDecimals
\* give their diagnostics jointly: the price is parsed at the normalized
\* price decimals, and when these failed normalization a number or string
\* price gives, whatever its value, the single error "tokenPriceDecimals is
\* required to parse non-bigint tokenPrice values." and no warning.
C29_FieldsAccumulate ==
  CoercionRan =>
    IF call.op # "robustCalculateTokenValue" THEN Accumulates(call, EachField(call.op))
    ELSE
      /\ Accumulates(call, <<{"tokenAmount"}, {"tokenDecimals"},
                             {"tokenPriceDecimals", "tokenPrice"}>>)
      /\ DecimalPriceWithoutPlaces(call) =>
           /\ SameMessages(CoercionMessages(result.warnings),
                GroupByGroup(call, <<{"tokenAmount"}, {"tokenDecimals"},
                                     {"tokenPriceDecimals"}>>, "warnings"))
           /\ SameMessages(CoercionMessages(result.errors),
                GroupByGroup(call, <<{"tokenAmount"}, {"tokenDecimals"},
                                     {"tokenPriceDecimals"}>>, "errors")
                  \o <<PriceDecimalsError>>)

\* Two malformed fields of the scaled-integer wrapper, an error for each.
C29_Witness ==
  /\ CoercionRan
  /\ call.op = "robustFormatBigIntToViewNumber"
  /\ Field(call.input, "bigIntValue") = Str(Chars("abc"))
  /\ Field(call.input, "symbol") = Obj
  /\ Field(call.input, "decimals") = Str(Chars("x"))
  /\ Len(result.errors) = 3

\* The calculator with a malformed price and malformed price decimals.
C29_PriceWitness ==
  /\ CoercionRan
  /\ call.op = "robustCalculateTokenValue"
  /\ Field(call.input, "tokenPrice") = Str(Chars("abc"))
  /\ Field(call.input, "tokenPriceDecimals") = Str(Chars("x"))
  /\ Field(call.input, "tokenAmount") = Obj
  /\ Len(result.errors) = 3

(***************************************************************************)
(* C30                                                                     *)
(***************************************************************************)
\* The configured floor is greater than the configured ceiling.
FloorAboveCeiling(c) ==
  /\ FloorConfigured(c)
  /\ CeilingConfigured(c)
  /\ NumLt(OptionsOf(c).maxDisplay, OptionsOf(c).minDisplay)

\* C30: no result of any formatter has belowMin and aboveMax both true, for
\* every input and every configuration, those whose floor (minDisplay) is
\* greater than the ceiling (maxDisplay) included.
C30_NeverBelowAndAbove ==
  Returned => ~(result.v.belowMin /\ result.v.aboveMax)

\* What holds: the two flags exclude each other in the token-amount
\* formatter under every configuration, and in the number, percent and
\* scaled-integer formatters unless the floor is greater than the ceiling.
C30_ExclusiveUnlessFloorAboveCeiling ==
  (Returned /\ (call.op = "formatBigIntToViewTokenAmount" \/ ~FloorAboveCeiling(call)))
    => ~(result.v.belowMin /\ result.v.aboveMax)

\* The token-amount formatter under a floor above the ceiling: the floor wins.
C30_TokenAmountFloorWins ==
  /\ Returned
  /\ call.op = "formatBigIntToViewTokenAmount"
  /\ FloorAboveCeiling(call)
  /\ MagnitudeBelow(Shown(call), call.config.minDisplay)
  /\ MagnitudeAbove(Shown(call), call.config.maxDisplay)
  /\ result.v.belowMin
  /\ ~result.v.aboveMax

====
